---- MODULE Spec2Model ----
(***************************************************************************)
(* A model of the Sybl client (src/sybl/client/sybl_client.py), its job    *)
(* negotiation policy (src/sybl/client/job_config.py) and the framing used *)
(* by the client and by the enrollment handshake (src/sybl/authenticate.py)*)
(*                                                                         *)
(* Bytes on the wire are counted, not enumerated: a frame is a declared    *)
(* length (the 4-byte prefix) and a payload of a known number of bytes     *)
(* that carries a message. A read accumulates a number of bytes starting   *)
(* at the payload's first byte; json.loads of the accumulated bytes yields *)
(* the message exactly when they are the whole payload and nothing else.   *)
(***************************************************************************)
EXTENDS Integers, Sequences, FiniteSets, TLC

VARIABLES
    state,            \* Sybl._state
    message_stack,    \* Sybl._message_stack (top of the stack is the last element)
    recv_job_config,  \* Sybl.recv_job_config
    callback,         \* TRUE when Sybl.callback is not None
    access_token,     \* Sybl._access_token
    model_id,         \* Sybl._model_id
    config,           \* Sybl.config, a JobConfig
    conn,             \* the socket: "idle", "connected", "refused"
    sock_in,          \* frames written by the peer and not yet read
    sent,             \* the writes made with sock.send, in order
    calls,            \* the invocations of the Work Callback, in order, each with its result
    pc,               \* where the program is: "new", "auth", "loop", "raised", "exited", "done", or the harness that runs
    err,              \* the exception that ended the program, "" when none
    peer_frames,      \* how many frames the peer has written into the session loop
    lastRead,         \* what the last _read_message call did
    op,               \* the last operation that ran
    verifier,         \* the Authentication object's email, password, model_name, private_key
    store,            \* the credential store: the file sybl.json
    parsed            \* what the last parse_message call did

vars == <<state, message_stack, recv_job_config, callback, access_token, model_id,
          config, conn, sock_in, sent, calls, pc, err, peer_frames, lastRead, op,
          verifier, store, parsed>>

\* what only the enrollment handshake and the credential store touch
enrollment_vars == <<verifier, store, parsed>>

----------------------------------------------------------------------------
(* Bounds of the model *)

\* frames the peer writes in one behaviour
MaxFrames == 2
\* characters of an encoded text (Base64 of the predictions or of a
\* signature) and of the JSON text of a value only a peer writes (far
\* below ChunkSize)
SmallChars == 32
\* bytes of a frame that is read with one recv
SmallFrame == 64

(* Program constants *)

\* the chunking threshold and the chunk size of _read_message
ChunkSize == 4096
\* the length prefix: recv(4), to_bytes(4, ...)
HeaderLen == 4
\* JobConfig's default timeout, in minutes
DefaultTimeout == 10
\* minutes to seconds in JobConfig.compare
SecondsPerMinute == 60

\* payload sizes above the threshold: one that ends inside its second chunk
\* and one that fills two chunks exactly
LargeFrame == ChunkSize + 904
TwoChunks == 2 * ChunkSize
\* recv calls one _read_message makes at most on the frames of the model: one
\* for the prefix and one per started chunk
MaxRecvs == 1 + ((TwoChunks + ChunkSize - 1) \div ChunkSize)

None == [None |-> TRUE]
NoneStr == "<None>"

\* a JSON object without entries
EmptyObject == [k \in {} |-> None]

\* no Authentication object, no credential store file, no parse_message call
NoVerifier ==
    [email |-> "", password |-> [s |-> "", n |-> 0, w |-> 0], model_name |-> "", private_key |-> NoneStr]
NoStore == [file |-> "absent", json |-> EmptyObject]
NoParse == [res |-> "none", variant |-> "", data |-> None]

Min(a, b) == IF a <= b THEN a ELSE b

Last(s) == s[Len(s)]
Front(s) == SubSeq(s, 1, Len(s) - 1)

----------------------------------------------------------------------------
(* Values *)

States == {"AUTHENTICATING", "HEARTBEAT", "READ_JOB", "PROCESSING"}

\* a string of n characters of which w are not ASCII
TextX == [s |-> "x", n |-> 1, w |-> 0]
TextWide == [s |-> "e-acute", n |-> 3, w |-> 1]
TextBig == [s |-> "big", n |-> 5000, w |-> 0]
TextBigWide == [s |-> "bigwide", n |-> 4060, w |-> 2]
NoText == [s |-> "", n |-> 0, w |-> 0]

OfferOK == [message_creation_timestamp |-> 0, prediction_cutoff_timestamp |-> 600,
            prediction_type |-> "regression"]
OfferLate == [message_creation_timestamp |-> 0, prediction_cutoff_timestamp |-> 601,
              prediction_type |-> "REGRESSION"]
OfferMalformed == [message_creation_timestamp |-> 0, prediction_cutoff_timestamp |-> 300]

ConfigDefault == [prediction_types |-> {"regression", "classification"},
                  max_timeout |-> DefaultTimeout, comparison_function |-> "None"]
ConfigNarrow == [prediction_types |-> {"classification"},
                 max_timeout |-> 5, comparison_function |-> "None"]
ConfigCustom == [prediction_types |-> {"classification"},
                 max_timeout |-> 5, comparison_function |-> "accept_all"]
Configs == {ConfigDefault, ConfigNarrow, ConfigCustom}

\* tables (pandas DataFrames): column names and rows
TrainA == [cols |-> <<"record_id", "a">>, rows |-> << <<1, 10>>, <<2, 20>> >>]
PredictA == [cols |-> <<"a", "record_id">>, rows |-> << <<10, 4>>, <<20, 3>> >>]
TrainNoId == [cols |-> <<"a">>, rows |-> << <<10>>, <<20>> >>]

\* what a Work Callback may return: a row per prediction, a row too few, no
\* row at all, and tables with a record_id column of their own, first or last
CallbackResults ==
    { [cols |-> <<"e">>, rows |-> << <<5>>, <<6>> >>],
      [cols |-> <<"e">>, rows |-> << <<5>> >>],
      [cols |-> <<"e">>, rows |-> << >>],
      [cols |-> <<"record_id", "e">>, rows |-> << <<0, 5>>, <<0, 6>> >>],
      [cols |-> <<"e", "record_id">>, rows |-> << <<5, 0>>, <<6, 0>> >>] }

----------------------------------------------------------------------------
(* Messages: a message is a function from its top-level keys to payloads *)

AliveMsg(t) == [Alive |-> t]
JobConfigMsg(o) == [JobConfig |-> o]
DatasetMsg(d) == [Dataset |-> d]
ServerMsg(p) == [Server |-> p]
StatusMsg(s) == [message |-> s]

\* the status text _is_authenticated compares the reply with
AuthSuccessText == "Authentication successful"

----------------------------------------------------------------------------
(* json.dumps, str.encode, json.loads *)

\* the free text of one top-level entry of a message: the opaque payload of
\* Alive, the password of NewModel
TextOf(m, k) ==
    IF k = "Alive" THEN m[k]
    ELSE IF k = "NewModel" THEN m[k].password
    ELSE NoText

\* characters of the JSON text of a str (its quotes and its characters) or
\* of None (null)
StrChars(s) == IF s = NoneStr THEN 4 ELSE Len(s) + 2

\* ASCII characters of the JSON text of a free text: its quotes and its
\* ASCII characters
TextChars(t) == t.n - t.w + 2

\* characters of the JSON text of a bool: true, false
BoolChars(b) == IF b THEN 4 ELSE 5

\* characters of the JSON text of an entry "key": value whose value takes v
\* characters (json.dumps separates with ": ")
EntryChars(key, v) == Len(key) + 4 + v

\* ASCII characters of the JSON text of the value of one top-level entry of
\* a message, as json.dumps writes it with its separators ", " and ": ".
\* The values the clients build are written out; an encoded text (the
\* predictions, the signature) and the value of an entry that only a peer
\* writes take SmallChars characters.
ValueAscii(m, k) ==
    CASE k = "Alive" -> TextChars(m[k])
      [] k = "NewModel" ->
            2 + EntryChars("email", StrChars(m[k].email))
              + 2 + EntryChars("password", TextChars(m[k].password))
              + 2 + EntryChars("model_name", StrChars(m[k].model_name))
      [] k = "ChallengeResponse" ->
            2 + EntryChars("email", StrChars(m[k].email))
              + 2 + EntryChars("model_name", StrChars(m[k].model_name))
              + 2 + EntryChars("response", SmallChars + 2)
      [] k = "ConfigResponse" -> 2 + EntryChars("accept", BoolChars(m[k].accept))
      [] k = "AccessToken" ->
            2 + EntryChars("id", StrChars(m[k].id))
              + 2 + EntryChars("token", StrChars(m[k].token))
      [] k = "Predictions" -> SmallChars + 2
      [] OTHER -> SmallChars

\* characters of the JSON text of one top-level entry of a message, and the
\* two characters that open or separate it ("{" with the closing "}" for
\* the first entry, ", " for every other)
KeyAscii(m, k) == 2 + EntryChars(k, ValueAscii(m, k))
KeyWide(m, k) == TextOf(m, k).w

RECURSIVE RawAscii(_, _)
RawAscii(m, K) ==
    IF K = {} THEN 0
    ELSE LET k == CHOOSE x \in K : TRUE IN KeyAscii(m, k) + RawAscii(m, K \ {k})

RECURSIVE RawWide(_, _)
RawWide(m, K) ==
    IF K = {} THEN 0
    ELSE LET k == CHOOSE x \in K : TRUE IN KeyWide(m, k) + RawWide(m, K \ {k})

\* ASCII characters of the JSON text of a message; an empty dict is "{}"
JsonAscii(m) == IF DOMAIN m = {} THEN 2 ELSE RawAscii(m, DOMAIN m)

\* json.dumps with ensure_ascii left off: non-ASCII characters are kept
json_dumps_raw(m) ==
    [of |-> m, ascii |-> JsonAscii(m), wide |-> RawWide(m, DOMAIN m)]

\* json.dumps(message): the text of the message; every non-ASCII character is
\* written as a \uXXXX escape of 6 ASCII characters (ensure_ascii defaults on)
json_dumps(m) ==
    [of |-> m, ascii |-> JsonAscii(m) + 6 * RawWide(m, DOMAIN m), wide |-> 0]

\* len(data) of a str: its characters
str_len(t) == t.ascii + t.wide

\* data.encode("utf-8"): one byte per ASCII character, two per non-ASCII
\* character of the model (U+0080..U+07FF)
utf8_encode(t) == [msg |-> t.of, bytes |-> t.ascii + 2 * t.wide]

\* Sybl._send_message: the one write it makes, prefix and payload
Sybl_frame(m) ==
    LET data == json_dumps(m)
        encoded == utf8_encode(data)
        length == str_len(data)
    IN  [prefix |-> length, payload |-> encoded]

\* Authentication._send_message: the one write it makes
Authentication_frame(m) ==
    LET readable == json_dumps(m)
        data == utf8_encode(readable)
        length == data.bytes
    IN  [prefix |-> length, payload |-> data]

\* a frame as a conforming peer writes it: the compact JSON text of a message
\* of the shape m whose content takes L bytes, behind the prefix L
PeerFrame(m, L) == [prefix |-> L, payload |-> [msg |-> m, bytes |-> L]]

----------------------------------------------------------------------------
(* socket.recv and _read_message *)

\* what is left on the stream of a frame whose first bytes were taken by a
\* recv: n bytes
Fragment(n) == [rest |-> n]
IsFragment(f) == DOMAIN f = {"rest"}

\* the bytes of a frame on the stream: prefix and payload
FrameBytes(f) == IF IsFragment(f) THEN f.rest ELSE HeaderLen + f.payload.bytes

RECURSIVE StreamBytes(_)
StreamBytes(s) ==
    IF s = <<>> THEN 0 ELSE FrameBytes(Head(s)) + StreamBytes(Tail(s))

\* byte j (1 to 4) of the big-endian length prefix p
PrefixByte(p, j) == (p \div (256 ^ (HeaderLen - j))) % 256

\* bytes(buf).decode("utf-8") in json.loads fails: the k bytes that buf took
\* from the frames behind the one that was read hold a byte of a length
\* prefix that is 0x80 or more. The payloads are UTF-8 text whose non-ASCII
\* characters sit in the free text near the start of the payload, where no
\* read of the model ends: a read never stops inside a character.
RECURSIVE invalid_utf8(_, _)
invalid_utf8(rest, k) ==
    IF k <= 0 \/ rest = <<>> THEN FALSE
    ELSE LET f == Head(rest)
         IN  \/ \E j \in 1..Min(k, HeaderLen) : PrefixByte(f.prefix, j) >= 128
             \/ invalid_utf8(Tail(rest), k - FrameBytes(f))

\* sock.recv(n) when the network hands over at most cap bytes and left bytes
\* are in flight: at most n bytes, possibly fewer
recv(n, cap, left) == Min(Min(n, cap), left)

\* the loop of _read_message for size > 4096: one recv(4096) per iteration,
\* remaining_size lowered by 4096 whatever the recv returned. The result is
\* the number of bytes in buf, or -1 when a recv blocks on an empty stream.
RECURSIVE recv_chunks(_, _, _, _, _)
recv_chunks(remaining_size, buf, left, caps, i) ==
    IF remaining_size > 0
    THEN IF left = 0 THEN -1
         ELSE LET chunk == recv(ChunkSize, caps[i], left)
              IN  recv_chunks(remaining_size - ChunkSize, buf + chunk,
                              left - chunk, caps, i + 1)
    ELSE buf

NoFrame == [prefix |-> 0, payload |-> [msg |-> None, bytes |-> 0]]

\* a read: its outcome, the message returned, the declared size, the payload
\* bytes accumulated, the bytes taken off the stream, whether the chunked
\* path ran, and the frame the read started at
NoRead == [res |-> "none", msg |-> None, size |-> 0, buf |-> 0, consumed |-> 0,
           chunked |-> FALSE, frame |-> NoFrame]

\* the framing part of _read_message: recv(4), struct.unpack, the payload
\* reads and json.loads. On a stream that starts at a frame boundary the
\* prefix is the one the peer wrote. On a stream that starts inside a frame
\* (an earlier read failed) the four bytes unpacked are bytes of JSON text or
\* of a torn prefix followed by text: a size far above 4096, and the chunked
\* loop waits for bytes that do not arrive.
read_payload(stream, caps) ==
    LET avail == StreamBytes(stream)
        frame == Head(stream)
        size_bytes == recv(HeaderLen, caps[1], avail)
        size == frame.prefix
        left == avail - HeaderLen
        buf == IF size > ChunkSize
               THEN recv_chunks(size, 0, left, caps, 2)
               ELSE recv(size, caps[2], left)
    IN  IF size_bytes < HeaderLen
        THEN [NoRead EXCEPT !.res = "struct.error", !.consumed = size_bytes,
                            !.frame = IF IsFragment(frame) THEN NoFrame ELSE frame]
        ELSE IF IsFragment(frame)
        THEN [NoRead EXCEPT !.res = "blocked"]
        ELSE IF buf = -1 \/ (buf = 0 /\ size > 0)
        THEN [NoRead EXCEPT !.res = "blocked"]
        ELSE [res |-> IF buf = frame.payload.bytes THEN "ok"
                      ELSE IF invalid_utf8(Tail(stream), buf - frame.payload.bytes)
                      THEN "UnicodeDecodeError"
                      ELSE "JSONDecodeError",
              msg |-> IF buf = frame.payload.bytes THEN frame.payload.msg ELSE None,
              size |-> size, buf |-> buf, consumed |-> HeaderLen + buf,
              chunked |-> size > ChunkSize, frame |-> frame]

\* Sybl._handle_server_error: "SystemExit" for sys.exit(1), "ok" when it returns
Sybl_handle_server_error(payload) ==
    IF "message" \in DOMAIN payload
    THEN IF payload.message = "Locked" THEN "SystemExit" ELSE "ok"
    ELSE "SystemExit"

\* Authentication._handle_server_error
Authentication_handle_server_error(payload) ==
    IF "message" \in DOMAIN payload
    THEN IF payload.message = "Unauthorized" THEN "SystemExit" ELSE "ok"
    ELSE "SystemExit"

\* the check of a decoded message for a server error, made only on the path
\* for size <= 4096; who is "Sybl" or "Authentication"
server_check(who, message) ==
    IF "Server" \in DOMAIN message /\ "text" \in DOMAIN message.Server
    THEN IF "json" \notin DOMAIN message.Server.text THEN "JSONDecodeError"
         ELSE IF "code" \notin DOMAIN message.Server THEN "KeyError"
         ELSE IF who = "Sybl"
              THEN Sybl_handle_server_error(message.Server.text.json)
              ELSE Authentication_handle_server_error(message.Server.text.json)
    ELSE "ok"

\* _read_message of either class
read_message(who, stream, caps) ==
    LET r == read_payload(stream, caps)
    IN  IF r.res = "ok" /\ ~r.chunked
        THEN [r EXCEPT !.res = server_check(who, r.msg)]
        ELSE r

\* the stream without its first k bytes
RECURSIVE drop_bytes(_, _)
drop_bytes(stream, k) ==
    IF k = 0 \/ stream = <<>> THEN stream
    ELSE IF k >= FrameBytes(Head(stream))
    THEN drop_bytes(Tail(stream), k - FrameBytes(Head(stream)))
    ELSE <<Fragment(FrameBytes(Head(stream)) - k)>> \o Tail(stream)

\* the stream after a read: the bytes its recv calls returned are gone,
\* whether the read returned a message or raised
after_read(stream, r) == drop_bytes(stream, r.consumed)

CapSet == {2, 1000, ChunkSize}
Caps == [1..MaxRecvs -> CapSet]

----------------------------------------------------------------------------
(* Job negotiation policy: src/sybl/client/job_config.py *)

expected_fields ==
    {"message_creation_timestamp", "prediction_cutoff_timestamp", "prediction_type"}

\* str.lower() on the prediction types of the model
lower(s) ==
    CASE s = "REGRESSION" -> "regression"
      [] s = "Regression" -> "regression"
      [] s = "Classification" -> "classification"
      [] OTHER -> s

\* a user-defined comparison function, named by what it does
comparison_function(f, job_config) ==
    CASE f = "accept_all" -> TRUE
      [] f = "reject_all" -> FALSE
      [] f = "minimum_time" ->
            LET time_difference == job_config.prediction_cutoff_timestamp
                                       - job_config.message_creation_timestamp
            IN  IF job_config.prediction_type = "classification"
                THEN 15 * 60 <= time_difference
                ELSE 5 * 60 <= time_difference
      [] OTHER -> job_config.prediction_cutoff_timestamp < 10

\* faulty variants of compare: the custom predicate is consulted before the
\* fields are checked; the predicate's result is combined with the default checks
compare_custom_first(self, job_config) ==
    IF self.comparison_function = "accept_all" THEN TRUE
    ELSE IF ~(expected_fields \subseteq DOMAIN job_config) THEN FALSE
    ELSE IF self.comparison_function # "None"
    THEN comparison_function(self.comparison_function, job_config)
    ELSE /\ job_config.prediction_cutoff_timestamp - job_config.message_creation_timestamp
                <= self.max_timeout * SecondsPerMinute
         /\ lower(job_config.prediction_type) \in self.prediction_types

compare_and_default(self, job_config) ==
    IF ~(expected_fields \subseteq DOMAIN job_config) THEN FALSE
    ELSE /\ \/ self.comparison_function = "None"
            \/ comparison_function(self.comparison_function, job_config)
         /\ job_config.prediction_cutoff_timestamp - job_config.message_creation_timestamp
                <= self.max_timeout * SecondsPerMinute
         /\ lower(job_config.prediction_type) \in self.prediction_types

\* JobConfig.compare
compare(self, job_config) ==
    IF ~(expected_fields \subseteq DOMAIN job_config) THEN FALSE
    ELSE IF self.comparison_function # "None"
    THEN comparison_function(self.comparison_function, job_config)
    ELSE LET message_creation_timestamp == job_config.message_creation_timestamp
             prediction_cutoff_timestamp == job_config.prediction_cutoff_timestamp
             prediction_type == lower(job_config.prediction_type)
             time_difference == prediction_cutoff_timestamp - message_creation_timestamp
         IN  /\ time_difference <= self.max_timeout * SecondsPerMinute
             /\ prediction_type \in self.prediction_types

----------------------------------------------------------------------------
(* Tables, CSV, bzip2 and Base64 *)

\* DataFrame.to_csv(index=False) and pd.read_csv: the text of a table
to_csv(t) == [csv |-> t]
is_csv(x) == DOMAIN x = {"csv"}
read_csv(x) == x.csv

\* compress_and_encode: Base64 of the bzip2 of the text
compress_and_encode(data) == [b64 |-> [bz2 |-> data]]

\* decode_and_decompress succeeds on Base64 of a bzip2 stream only
can_decode(data) == DOMAIN data = {"b64"} /\ DOMAIN data.b64 = {"bz2"}
decode_and_decompress(data) == data.b64.bz2

Index(seq, x) == CHOOSE i \in 1..Len(seq) : seq[i] = x
Has(seq, x) == \E i \in 1..Len(seq) : seq[i] = x
Without(seq, i) == [j \in 1..(Len(seq) - 1) |-> IF j < i THEN seq[j] ELSE seq[j + 1]]

\* DataFrame.drop([c], axis=1)
drop(t, c) ==
    LET i == Index(t.cols, c)
    IN  [cols |-> Without(t.cols, i),
         rows |-> [r \in 1..Len(t.rows) |-> Without(t.rows[r], i)]]

\* DataFrame[c].tolist()
tolist(t, c) == LET i == Index(t.cols, c) IN [r \in 1..Len(t.rows) |-> t.rows[r][i]]

\* a faulty prepare_datasets: a train table without record_id passes through
prepare_datasets_pass_through(train, prediction) ==
    IF Has(train.cols, "record_id")
    THEN IF Has(prediction.cols, "record_id")
         THEN [res |-> "ok", train |-> drop(train, "record_id"),
               prediction |-> drop(prediction, "record_id"),
               predict_rids |-> tolist(prediction, "record_id")]
         ELSE [res |-> "KeyError", train |-> drop(train, "record_id"),
               prediction |-> prediction, predict_rids |-> <<>>]
    ELSE [res |-> "ok", train |-> train, prediction |-> prediction,
          predict_rids |-> <<>>]

\* prepare_datasets: "AttributeError" when train has no record_id, "KeyError"
\* when only the prediction set has none
prepare_datasets(train, prediction) ==
    IF Has(train.cols, "record_id")
    THEN IF Has(prediction.cols, "record_id")
         THEN [res |-> "ok", train |-> drop(train, "record_id"),
               prediction |-> drop(prediction, "record_id"),
               predict_rids |-> tolist(prediction, "record_id")]
         ELSE [res |-> "KeyError", train |-> drop(train, "record_id"),
               prediction |-> prediction, predict_rids |-> <<>>]
    ELSE [res |-> "AttributeError", train |-> train, prediction |-> prediction,
          predict_rids |-> <<>>]

\* the cell of a column that has no value for a row
NaN == "NaN"

\* whether predictions["record_id"] = predict_rids is accepted: the list has
\* a value for every row of the table, or the table has no rows (pandas then
\* builds the index from the list); otherwise it raises ValueError
can_set_record_id(predictions, predict_rids) ==
    Len(predictions.rows) = Len(predict_rids) \/ Len(predictions.rows) = 0

\* predictions["record_id"] = predict_rids: replaces the column in place when
\* the table has one, appends it otherwise. A table without rows gets a row
\* for every value of the list, its other columns filled with NaN.
set_record_id(predictions, predict_rids) ==
    LET rows == IF Len(predictions.rows) = 0
                THEN [r \in 1..Len(predict_rids) |->
                         [c \in 1..Len(predictions.cols) |-> NaN]]
                ELSE predictions.rows
    IN  IF Has(predictions.cols, "record_id")
        THEN LET i == Index(predictions.cols, "record_id")
             IN  [cols |-> predictions.cols,
                  rows |-> [r \in 1..Len(rows) |->
                              [rows[r] EXCEPT ![i] = predict_rids[r]]]]
        ELSE [cols |-> Append(predictions.cols, "record_id"),
              rows |-> [r \in 1..Len(rows) |-> Append(rows[r], predict_rids[r])]]

\* a faulty reordering: the columns are left as they are
last_column_kept(t) == t

\* cols.insert(0, cols.pop()); predictions[cols]: the last column comes first
last_column_first(t) ==
    LET rot(q) == <<Last(q)>> \o Front(q)
    IN  [cols |-> rot(t.cols), rows |-> [r \in 1..Len(t.rows) |-> rot(t.rows[r])]]

----------------------------------------------------------------------------
(* What the peer writes *)

DatasetGood == [train |-> compress_and_encode(to_csv(TrainA)),
                predict |-> compress_and_encode(to_csv(PredictA))]
DatasetNoId == [train |-> compress_and_encode(to_csv(TrainNoId)),
                predict |-> compress_and_encode(to_csv(PredictA))]
DatasetRaw == [train |-> to_csv(TrainA), predict |-> to_csv(PredictA)]

ServerLocked == [code |-> "403", text |-> [json |-> [message |-> "Locked"]]]
ServerUnauthorized == [code |-> "401", text |-> [json |-> [message |-> "Unauthorized"]]]
ServerUnknown == [code |-> "500", text |-> [json |-> [detail |-> "x"]]]
ServerOther == [code |-> "500", text |-> [json |-> [message |-> "Internal error"]]]
ServerNoText == [code |-> "500"]

\* the replies to AccessToken
AuthFrames ==
    { PeerFrame(StatusMsg(AuthSuccessText), SmallFrame),
      PeerFrame(StatusMsg("Authentication unsuccessful"), SmallFrame),
      PeerFrame([bad |-> "response"], SmallFrame),
      PeerFrame(StatusMsg(AuthSuccessText), LargeFrame),
      PeerFrame(ServerMsg(ServerLocked), SmallFrame) }

\* the frames of the session loop
LoopFrames ==
    { PeerFrame(AliveMsg(TextX), SmallFrame),
      PeerFrame(AliveMsg(TextWide), LargeFrame),
      PeerFrame(JobConfigMsg(OfferOK), SmallFrame),
      PeerFrame(JobConfigMsg(OfferLate), TwoChunks),
      PeerFrame(JobConfigMsg(OfferMalformed), SmallFrame),
      PeerFrame(DatasetMsg(DatasetGood), SmallFrame),
      PeerFrame(DatasetMsg(DatasetGood), LargeFrame),
      PeerFrame(DatasetMsg(DatasetNoId), SmallFrame),
      PeerFrame([Alive |-> TextX, JobConfig |-> OfferOK], SmallFrame),
      PeerFrame([Other |-> "x"], SmallFrame),
      PeerFrame(ServerMsg(ServerLocked), SmallFrame),
      PeerFrame(ServerMsg(ServerUnauthorized), SmallFrame) }

----------------------------------------------------------------------------
(* The credential store: sybl.json in XDG_DATA_HOME *)

\* the key of an identity in the credential store
key_name(email, model_name) == email \o "." \o model_name

\* the entry save_access_tokens writes
new_model(id, token) == [model_id |-> id, access_token |-> token]

\* a JSON object with one more entry, or with the entry of that key replaced
put(json_contents, key, value) ==
    [k \in DOMAIN json_contents \cup {key} |->
        IF k = key THEN value ELSE json_contents[k]]

\* the credential store files: absent, empty, an object with the entry of
\* another identity, an object with an older entry of the enrolling identity,
\* and a file that is not JSON
StoreOther == [file |-> "json",
               json |-> put(EmptyObject, "o@x.m", new_model("i0", "t0"))]
StoreOld == [file |-> "json",
             json |-> put(put(EmptyObject, "o@x.m", new_model("i0", "t0")),
                          "e@x.m", new_model("i9", "t9"))]
StoreCorrupt == [file |-> "corrupt", json |-> EmptyObject]
Stores == {NoStore, [file |-> "empty", json |-> EmptyObject], StoreOther, StoreOld,
           StoreCorrupt}

\* the stores a session loads its model from: no file, the entry of a
\* registered model, an entry with an empty token
StoreRegistered == [file |-> "json",
                    json |-> put(EmptyObject, "e@x.m", new_model("id", "token"))]
StoreEmptyToken == [file |-> "json",
                    json |-> put(EmptyObject, "e@x.m", new_model("id", ""))]
SessionStores == {NoStore, StoreRegistered, StoreEmptyToken}

\* a faulty load_access_token: the pair is returned in the other order
load_access_token_swapped(email, model_name, file) ==
    LET model_key == key_name(email, model_name)
        failed(e) == [res |-> e, access_token |-> NoneStr, model_id |-> NoneStr]
    IN  IF file.file = "absent" THEN failed("FileNotFoundError")
        ELSE IF file.file # "json" THEN failed("JSONDecodeError")
        ELSE IF model_key \notin DOMAIN file.json THEN failed("ValueError")
        ELSE [res |-> "ok",
              access_token |-> file.json[model_key].model_id,
              model_id |-> file.json[model_key].access_token]

\* load_access_token: open raises FileNotFoundError for a missing file,
\* json.loads raises JSONDecodeError for an empty file and for one that is
\* not JSON, a missing entry raises ValueError
load_access_token(email, model_name, file) ==
    LET model_key == key_name(email, model_name)
        failed(e) == [res |-> e, access_token |-> NoneStr, model_id |-> NoneStr]
    IN  IF file.file = "absent" THEN failed("FileNotFoundError")
        ELSE IF file.file # "json" THEN failed("JSONDecodeError")
        ELSE IF model_key \notin DOMAIN file.json THEN failed("ValueError")
        ELSE [res |-> "ok",
              access_token |-> file.json[model_key].access_token,
              model_id |-> file.json[model_key].model_id]

\* the identities that are loaded and the credentials that are saved
Identities == {<<"e@x", "m">>, <<"e@x", "n">>}
NewCredentials == {<<"i1", "t1">>, <<"2344423", "">>}

----------------------------------------------------------------------------
(* The session client: class Sybl *)

\* a faulty check of the credential: every value passes
falsy_never(s) == FALSE

falsy(s) == s = NoneStr \/ s = ""

\* a faulty propagation: the exception is recorded and the caller goes on
Raise_caught(e) ==
    /\ pc' = pc
    /\ err' = e

\* an exception leaves the handler (sys.exit raises SystemExit)
Raise(e) ==
    /\ pc' = IF e = "SystemExit" THEN "exited" ELSE "raised"
    /\ err' = e

Return ==
    /\ pc' = pc
    /\ err' = err

\* a public method returns to a caller that may have caught the exception of
\* an earlier call
Resume ==
    /\ pc' = IF pc = "raised" THEN "new" ELSE pc
    /\ err' = ""

\* no call on the session object is in progress: its public methods can be
\* called, also after one of them raised
Returned == pc \in {"new", "raised"}

\* Sybl.__init__ without email and model name: the object after construction,
\* with or without a callback, the default JobConfig and no credential; a
\* model is loaded by load_model, which assigns what __init__ assigns when it
\* is given an email and a model name
Init ==
    /\ state = "AUTHENTICATING"
    /\ message_stack = <<>>
    /\ recv_job_config = None
    /\ callback \in BOOLEAN
    /\ access_token = NoneStr
    /\ model_id = NoneStr
    /\ config = ConfigDefault
    /\ conn = "idle"
    /\ sock_in = <<>>
    /\ sent = <<>>
    /\ calls = <<>>
    /\ pc = "new"
    /\ err = ""
    /\ peer_frames = 0
    /\ lastRead = NoRead
    /\ op = "init"
    /\ verifier = NoVerifier
    /\ store \in SessionStores
    /\ parsed = NoParse

\* Sybl.register_callback; callable is whether the argument can be called
register_callback(callable) ==
    /\ op' = "register_callback"
    /\ IF ~callable
       THEN Raise("TypeError") /\ UNCHANGED callback
       ELSE callback' = TRUE /\ Resume
    /\ UNCHANGED enrollment_vars
    /\ UNCHANGED <<state, message_stack, recv_job_config, access_token, model_id,
                   config, conn, sock_in, sent, calls, peer_frames, lastRead>>

\* Sybl.load_config; an argument that is no JobConfig is None here
load_config(c) ==
    /\ op' = "load_config"
    /\ IF c = None
       THEN Raise("AttributeError") /\ UNCHANGED config
       ELSE config' = c /\ Resume
    /\ UNCHANGED enrollment_vars
    /\ UNCHANGED <<state, message_stack, recv_job_config, callback, access_token,
                   model_id, conn, sock_in, sent, calls, peer_frames, lastRead>>

\* Sybl.load_model: the pair of load_access_token is assigned, or its
\* exception leaves the call
load_model(email, model_name) ==
    LET l == load_access_token(email, model_name, store)
    IN  /\ op' = "load_model"
        /\ IF l.res # "ok"
           THEN Raise(l.res) /\ UNCHANGED <<access_token, model_id>>
           ELSE /\ access_token' = l.access_token
                /\ model_id' = l.model_id
                /\ Resume
        /\ UNCHANGED enrollment_vars
        /\ UNCHANGED <<state, message_stack, recv_job_config, callback, config, conn,
                       sock_in, sent, calls, peer_frames, lastRead>>

\* the public methods other than connect, called between calls of connect
setup ==
    /\ Returned
    /\ \/ \E callable \in BOOLEAN : register_callback(callable)
       \/ \E c \in Configs \cup {None} : load_config(c)
       \/ \E i \in Identities : load_model(i[1], i[2])

\* the peer answers the AccessToken message
peer_reply(f) ==
    /\ pc = "auth"
    /\ sock_in = <<>>
    /\ sock_in' = <<f>>
    /\ op' = "peer_reply"
    /\ UNCHANGED enrollment_vars
    /\ UNCHANGED <<state, message_stack, recv_job_config, callback, access_token,
                   model_id, config, conn, sent, calls, pc, err, peer_frames, lastRead>>

\* the peer writes a frame while the session loop runs
peer_send(f) ==
    /\ pc = "loop"
    /\ peer_frames < MaxFrames
    /\ sock_in' = Append(sock_in, f)
    /\ peer_frames' = peer_frames + 1
    /\ op' = "peer_send"
    /\ UNCHANGED enrollment_vars
    /\ UNCHANGED <<state, message_stack, recv_job_config, callback, access_token,
                   model_id, config, conn, sent, calls, pc, err, lastRead>>

\* Sybl.connect up to the read of _is_authenticated: the two checks, the
\* connection and the AccessToken message. sock.connect on a socket that is
\* connected already raises OSError; after a refusal it can be tried again.
connect(refused) ==
    /\ Returned
    /\ op' = "connect"
    /\ UNCHANGED enrollment_vars
    /\ IF ~callback
       THEN Raise("AttributeError") /\ UNCHANGED <<conn, sent>>
       ELSE IF falsy(access_token) \/ falsy(model_id)
       THEN Raise("AttributeError") /\ UNCHANGED <<conn, sent>>
       ELSE IF conn = "connected"
       THEN Raise("OSError") /\ UNCHANGED <<conn, sent>>
       ELSE IF refused
       THEN Raise("ConnectionRefusedError") /\ conn' = "refused" /\ UNCHANGED sent
       ELSE LET response == [AccessToken |-> [id |-> model_id, token |-> access_token]]
            IN  /\ conn' = "connected"
                /\ sent' = Append(sent, Sybl_frame(response))
                /\ pc' = "auth"
                /\ err' = ""
    /\ UNCHANGED <<state, message_stack, recv_job_config, callback, access_token,
                   model_id, config, sock_in, calls, peer_frames, lastRead>>

\* a faulty _is_authenticated: a reply without a status text passes
is_authenticated_missing_ok(message) ==
    "message" \notin DOMAIN message \/ message.message = AuthSuccessText

\* a faulty _is_authenticated: any reply that carries a status text passes
is_authenticated_any_text(message) == "message" \in DOMAIN message

\* the verdict of Sybl._is_authenticated on the reply it read (a reply
\* without "message" raises KeyError, which is caught)
is_authenticated(message) ==
    "message" \in DOMAIN message /\ message.message = AuthSuccessText

\* the rest of Sybl.connect: _is_authenticated reads the reply, then the
\* session enters _begin_state_machine or PermissionError is raised
connect_reply(caps) ==
    LET r == read_message("Sybl", sock_in, caps)
        message == r.msg
        authenticated == is_authenticated(message)
    IN  /\ pc = "auth"
        /\ sock_in # <<>>
        /\ r.res # "blocked"
        /\ lastRead' = r
        /\ sock_in' = after_read(sock_in, r)
        /\ op' = "connect_reply"
        /\ UNCHANGED enrollment_vars
        /\ IF r.res # "ok" THEN Raise(r.res) /\ UNCHANGED state
           ELSE IF ~authenticated THEN Raise("PermissionError") /\ UNCHANGED state
           ELSE /\ state' = "HEARTBEAT"
                /\ pc' = "loop"
                /\ err' = err
        /\ UNCHANGED <<message_stack, recv_job_config, callback, access_token,
                       model_id, config, conn, sent, calls, peer_frames>>

\* faulty variants of the branches of _message_control: the heartbeat is not
\* echoed; the offer is not buffered; a dataset is taken for an offer
message_control_branch_no_echo(current, response) ==
    IF "Alive" \in DOMAIN response
    THEN [state |-> "HEARTBEAT", push |-> <<>>, send |-> <<>>]
    ELSE IF "JobConfig" \in DOMAIN response
    THEN [state |-> "READ_JOB", push |-> <<response>>, send |-> <<>>]
    ELSE IF "Dataset" \in DOMAIN response
    THEN [state |-> "PROCESSING", push |-> <<response>>, send |-> <<>>]
    ELSE [state |-> current, push |-> <<>>, send |-> <<>>]

message_control_branch_no_push(current, response) ==
    IF "Alive" \in DOMAIN response
    THEN [state |-> "HEARTBEAT", push |-> <<>>, send |-> <<response>>]
    ELSE IF "JobConfig" \in DOMAIN response
    THEN [state |-> "READ_JOB", push |-> <<>>, send |-> <<>>]
    ELSE IF "Dataset" \in DOMAIN response
    THEN [state |-> "PROCESSING", push |-> <<response>>, send |-> <<>>]
    ELSE [state |-> current, push |-> <<>>, send |-> <<>>]

message_control_branch_read_job(current, response) ==
    IF "Alive" \in DOMAIN response
    THEN [state |-> "HEARTBEAT", push |-> <<>>, send |-> <<response>>]
    ELSE IF "JobConfig" \in DOMAIN response \/ "Dataset" \in DOMAIN response
    THEN [state |-> "READ_JOB", push |-> <<response>>, send |-> <<>>]
    ELSE [state |-> current, push |-> <<>>, send |-> <<>>]

\* a faulty branch: the heartbeat is buffered as well as echoed
message_control_branch_push_alive(current, response) ==
    IF "Alive" \in DOMAIN response
    THEN [state |-> "HEARTBEAT", push |-> <<response>>, send |-> <<response>>]
    ELSE IF "JobConfig" \in DOMAIN response
    THEN [state |-> "READ_JOB", push |-> <<response>>, send |-> <<>>]
    ELSE IF "Dataset" \in DOMAIN response
    THEN [state |-> "PROCESSING", push |-> <<response>>, send |-> <<>>]
    ELSE [state |-> current, push |-> <<>>, send |-> <<>>]

\* a faulty branch: the keys are tested in the opposite order
message_control_branch_dataset_first(current, response) ==
    IF "Dataset" \in DOMAIN response
    THEN [state |-> "PROCESSING", push |-> <<response>>, send |-> <<>>]
    ELSE IF "JobConfig" \in DOMAIN response
    THEN [state |-> "READ_JOB", push |-> <<response>>, send |-> <<>>]
    ELSE IF "Alive" \in DOMAIN response
    THEN [state |-> "HEARTBEAT", push |-> <<>>, send |-> <<response>>]
    ELSE [state |-> current, push |-> <<>>, send |-> <<>>]

\* a faulty branch: an offer is echoed as well as buffered
message_control_branch_echo_offer(current, response) ==
    IF "Alive" \in DOMAIN response
    THEN [state |-> "HEARTBEAT", push |-> <<>>, send |-> <<response>>]
    ELSE IF "JobConfig" \in DOMAIN response
    THEN [state |-> "READ_JOB", push |-> <<response>>, send |-> <<response>>]
    ELSE IF "Dataset" \in DOMAIN response
    THEN [state |-> "PROCESSING", push |-> <<response>>, send |-> <<>>]
    ELSE [state |-> current, push |-> <<>>, send |-> <<>>]

\* the branches of Sybl._message_control on the message it read: the next
\* state, what is appended to the message stack and what is sent
message_control_branch(current, response) ==
    IF "Alive" \in DOMAIN response
    THEN [state |-> "HEARTBEAT", push |-> <<>>, send |-> <<response>>]
    ELSE IF "JobConfig" \in DOMAIN response
    THEN [state |-> "READ_JOB", push |-> <<response>>, send |-> <<>>]
    ELSE IF "Dataset" \in DOMAIN response
    THEN [state |-> "PROCESSING", push |-> <<response>>, send |-> <<>>]
    ELSE [state |-> current, push |-> <<>>, send |-> <<>>]

\* the frames of a sequence of messages sent one after the other
RECURSIVE Sybl_frames(_)
Sybl_frames(ms) ==
    IF ms = <<>> THEN <<>> ELSE <<Sybl_frame(Head(ms))>> \o Sybl_frames(Tail(ms))

\* Sybl._message_control
message_control(caps) ==
    LET r == read_message("Sybl", sock_in, caps)
        response == r.msg
    IN  /\ sock_in # <<>>
        /\ r.res # "blocked"
        /\ lastRead' = r
        /\ sock_in' = after_read(sock_in, r)
        /\ op' = "message_control"
        /\ UNCHANGED enrollment_vars
        /\ IF r.res # "ok"
           THEN Raise(r.res) /\ UNCHANGED <<state, message_stack, sent>>
           ELSE LET b == message_control_branch(state, response)
                IN  /\ state' = b.state
                    /\ message_stack' = message_stack \o b.push
                    /\ sent' = sent \o Sybl_frames(b.send)
                    /\ Return
        /\ UNCHANGED <<recv_job_config, callback, access_token, model_id, config,
                       conn, calls, peer_frames>>

\* a faulty answer: the test of accept_job is inverted
config_response_inverted(accept_job) ==
    IF accept_job THEN [ConfigResponse |-> [accept |-> FALSE]]
    ELSE [ConfigResponse |-> [accept |-> TRUE]]

\* the message _process_job_config answers an offer with
config_response(accept_job) ==
    IF ~accept_job THEN [ConfigResponse |-> [accept |-> FALSE]]
    ELSE [ConfigResponse |-> [accept |-> TRUE]]

\* a faulty _process_job_config: a rejection clears the remembered offer
process_job_config_forgetful ==
    /\ op' = "process_job_config"
    /\ UNCHANGED enrollment_vars
    /\ IF message_stack = <<>>
       THEN /\ state' = "HEARTBEAT"
            /\ Return /\ UNCHANGED <<message_stack, sent, recv_job_config>>
       ELSE LET job_config == Last(message_stack)
            IN  /\ message_stack' = Front(message_stack)
                /\ IF "JobConfig" \notin DOMAIN job_config
                   THEN /\ state' = "HEARTBEAT"
                        /\ Return /\ UNCHANGED <<sent, recv_job_config>>
                   ELSE LET accept_job == compare(config, job_config.JobConfig)
                        IN  /\ sent' = Append(sent, Sybl_frame(config_response(accept_job)))
                            /\ recv_job_config' =
                                   IF accept_job THEN job_config.JobConfig
                                   ELSE None
                            /\ state' = "HEARTBEAT"
                            /\ Return
    /\ UNCHANGED <<callback, access_token, model_id, config, conn, sock_in, calls,
                   peer_frames, lastRead>>

\* Sybl._process_job_config
process_job_config ==
    /\ op' = "process_job_config"
    /\ UNCHANGED enrollment_vars
    /\ IF message_stack = <<>>
       THEN /\ state' = "HEARTBEAT"
            /\ Return /\ UNCHANGED <<message_stack, sent, recv_job_config>>
       ELSE LET job_config == Last(message_stack)
            IN  /\ message_stack' = Front(message_stack)
                /\ IF "JobConfig" \notin DOMAIN job_config
                   THEN /\ state' = "HEARTBEAT"
                        /\ Return /\ UNCHANGED <<sent, recv_job_config>>
                   ELSE LET accept_job == compare(config, job_config.JobConfig)
                        IN  /\ sent' = Append(sent, Sybl_frame(config_response(accept_job)))
                            /\ recv_job_config' =
                                   IF accept_job THEN job_config.JobConfig
                                   ELSE recv_job_config
                            /\ state' = "HEARTBEAT"
                            /\ Return
    /\ UNCHANGED <<callback, access_token, model_id, config, conn, sock_in, calls,
                   peer_frames, lastRead>>

\* Sybl._process_job; predictions is what the Work Callback returns
process_job(predictions) ==
    LET data == Last(message_stack)
        dataset == data.Dataset
        train == decode_and_decompress(dataset.train)
        predict == decode_and_decompress(dataset.predict)
        prepared == prepare_datasets(read_csv(train), read_csv(predict))
        attached == last_column_first(set_record_id(predictions, prepared.predict_rids))
        message == [Predictions |-> compress_and_encode(to_csv(attached))]
        error ==
            IF message_stack = <<>> THEN "IndexError"
            ELSE IF "Dataset" \notin DOMAIN data THEN "AssertionError"
            ELSE IF "train" \notin DOMAIN dataset THEN "KeyError"
            ELSE IF ~can_decode(dataset.train) THEN "DecodeError"
            ELSE IF "predict" \notin DOMAIN dataset THEN "KeyError"
            ELSE IF ~can_decode(dataset.predict) THEN "DecodeError"
            ELSE IF ~(is_csv(train) /\ is_csv(predict)) THEN "ParserError"
            ELSE IF prepared.res # "ok" THEN prepared.res
            ELSE IF ~callback THEN "AssertionError"
            ELSE IF ~can_set_record_id(predictions, prepared.predict_rids)
            THEN "ValueError"
            ELSE IF Len(attached.rows) # Len(prepared.prediction.rows)
            THEN "AssertionError"
            ELSE ""
        called == error = "ValueError" \/ error = ""
    IN  /\ op' = "process_job"
        /\ UNCHANGED enrollment_vars
        /\ message_stack' = IF message_stack = <<>> THEN message_stack
                            ELSE Front(message_stack)
        /\ calls' = IF called
                    THEN Append(calls, [train |-> prepared.train,
                                        predict |-> prepared.prediction,
                                        job_config |-> recv_job_config,
                                        result |-> predictions])
                    ELSE calls
        /\ sent' = IF error = "" THEN Append(sent, Sybl_frame(message)) ELSE sent
        /\ state' = IF error = "" THEN "HEARTBEAT" ELSE state
        /\ IF error = "" THEN Return ELSE Raise(error)
        /\ UNCHANGED <<recv_job_config, callback, access_token, model_id, config,
                       conn, sock_in, peer_frames, lastRead>>

\* Sybl._begin_state_machine: the handler of the current state runs
begin_state_machine ==
    /\ pc = "loop"
    /\ \/ state = "HEARTBEAT" /\ \E caps \in Caps : message_control(caps)
       \/ state = "READ_JOB" /\ process_job_config
       \/ state = "PROCESSING" /\ \E predictions \in CallbackResults : process_job(predictions)

Next ==
    \/ setup
    \/ \E refused \in BOOLEAN : connect(refused)
    \/ \E f \in AuthFrames : peer_reply(f)
    \/ \E caps \in Caps : connect_reply(caps)
    \/ \E f \in LoopFrames : peer_send(f)
    \/ begin_state_machine

Spec == Init /\ [][Next]_vars

----------------------------------------------------------------------------
(* The handlers called directly on a session object, as the unit tests of   *)
(* src/tests/test_client.py do: any state, any content of the message      *)
(* stack, one frame waiting on the socket.                                  *)

UnitStacks ==
    { <<>>,
      <<JobConfigMsg(OfferOK)>>,
      <<JobConfigMsg(OfferLate)>>,
      <<DatasetMsg(DatasetGood)>>,
      <<DatasetMsg(DatasetRaw)>>,
      <<AliveMsg(TextX)>>,
      <<JobConfigMsg(OfferOK), DatasetMsg(DatasetGood)>> }

UnitFrames ==
    { PeerFrame(AliveMsg(TextX), SmallFrame),
      PeerFrame(JobConfigMsg(OfferOK), SmallFrame),
      PeerFrame(DatasetMsg(DatasetGood), SmallFrame),
      PeerFrame(ServerMsg(ServerUnknown), SmallFrame),
      PeerFrame(ServerMsg(ServerOther), SmallFrame),
      PeerFrame(ServerMsg(ServerNoText), SmallFrame),
      PeerFrame([JobConfig |-> OfferOK, Dataset |-> DatasetGood], SmallFrame),
      PeerFrame([Alive |-> TextX, Dataset |-> DatasetGood], SmallFrame),
      PeerFrame(ServerMsg(ServerLocked), SmallFrame),
      PeerFrame(ServerMsg(ServerLocked), LargeFrame) }

InitUnit ==
    /\ state \in States
    /\ message_stack \in UnitStacks
    /\ recv_job_config \in {None, OfferLate}
    /\ callback = TRUE
    /\ access_token = "token"
    /\ model_id = "id"
    /\ config \in {ConfigDefault, ConfigCustom}
    /\ conn = "connected"
    /\ sock_in \in {<<>>} \cup {<<f>> : f \in UnitFrames}
    /\ sent = <<>>
    /\ calls = <<>>
    /\ pc = "unit"
    /\ err = ""
    /\ peer_frames = 0
    /\ lastRead = NoRead
    /\ op = "init"
    /\ verifier = NoVerifier
    /\ store = NoStore
    /\ parsed = NoParse

unit_message_control == pc = "unit" /\ \E caps \in Caps : message_control(caps)

unit_process_job_config == pc = "unit" /\ process_job_config

unit_process_job == pc = "unit" /\ \E predictions \in CallbackResults : process_job(predictions)

unit_load_config == pc = "unit" /\ \E c \in Configs \cup {None} : load_config(c)

NextUnit ==
    \/ unit_load_config
    \/ unit_message_control
    \/ unit_process_job_config
    \/ unit_process_job

SpecUnit == InitUnit /\ [][NextUnit]_vars

----------------------------------------------------------------------------
(* The framed transport on its own: _send_message writes into a stream and  *)
(* _read_message reads the same stream, for the session client ("Sybl")     *)
(* and for the enrollment handshake ("Authentication").                     *)

NewModelMsg(password) ==
    [NewModel |-> [email |-> "e@x", password |-> password, model_name |-> "m"]]

\* messages the two clients send, short and long, with and without
\* non-ASCII characters
FramingMsgs ==
    { AliveMsg(TextX), AliveMsg(TextWide), AliveMsg(TextBig), AliveMsg(TextBigWide),
      [ConfigResponse |-> [accept |-> TRUE]],
      [AccessToken |-> [id |-> "id", token |-> "token"]],
      NewModelMsg(TextX), NewModelMsg(TextWide), NewModelMsg(TextBig) }

Endpoints == {"Sybl", "Authentication"}

\* _send_message of either class: one sock.send of prefix and payload
send_frame(who, m) == IF who = "Sybl" THEN Sybl_frame(m) ELSE Authentication_frame(m)

InitFraming ==
    /\ state = "AUTHENTICATING"
    /\ message_stack = <<>>
    /\ recv_job_config = None
    /\ callback = TRUE
    /\ access_token = "token"
    /\ model_id = "id"
    /\ config = ConfigDefault
    /\ conn = "connected"
    /\ sock_in = <<>>
    /\ sent = <<>>
    /\ calls = <<>>
    /\ pc = "frame"
    /\ err = ""
    /\ peer_frames = 0
    /\ lastRead = NoRead
    /\ op = "init"
    /\ verifier = NoVerifier
    /\ store = NoStore
    /\ parsed = NoParse

\* _send_message(m) on a stream whose other end is read by _read_message
framing_send(who, m) ==
    /\ pc = "frame"
    /\ Len(sent) < MaxFrames
    /\ sent' = Append(sent, send_frame(who, m))
    /\ sock_in' = Append(sock_in, send_frame(who, m))
    /\ op' = "send"
    /\ UNCHANGED enrollment_vars
    /\ UNCHANGED <<state, message_stack, recv_job_config, callback, access_token,
                   model_id, config, conn, calls, pc, err, peer_frames, lastRead>>

\* _read_message() on that stream
framing_receive(who, caps) ==
    LET r == read_message(who, sock_in, caps)
    IN  /\ pc = "frame"
        /\ sock_in # <<>>
        /\ r.res # "blocked"
        /\ lastRead' = r
        /\ sock_in' = after_read(sock_in, r)
        /\ op' = "receive"
        /\ UNCHANGED enrollment_vars
        /\ IF r.res = "ok" THEN Return ELSE Raise(r.res)
        /\ UNCHANGED <<state, message_stack, recv_job_config, callback, access_token,
                       model_id, config, conn, sent, calls, peer_frames>>

NextFraming ==
    \/ \E who \in Endpoints, m \in FramingMsgs : framing_send(who, m)
    \/ \E who \in Endpoints, caps \in Caps : framing_receive(who, caps)

SpecFraming == InitFraming /\ [][NextFraming]_vars

----------------------------------------------------------------------------
(* The job negotiation policy on its own: a JobConfig object is built, a    *)
(* comparison function may be installed, and compare is called on offers,   *)
(* as the tests of src/tests/test_job_config.py do.                         *)

\* how many compare calls a run makes
MaxCalls == 2

\* the policies: the allowed types as the user wrote them, the timeout in
\* minutes, and the installed comparison function ("None" when there is none)
ComparisonFunctions == {"accept_all", "reject_all", "minimum_time"}
PolicyConfigs ==
    [prediction_types : { {"regression", "classification"}, {"classification"},
                          {"regression"}, {"Regression"} },
     max_timeout : {5, DefaultTimeout},
     comparison_function : {"None"} \cup ComparisonFunctions]

\* the offers: well formed ones on both sides of the time limits, and offers
\* that lack a field
Offer(created, cutoff, type) ==
    [message_creation_timestamp |-> created, prediction_cutoff_timestamp |-> cutoff,
     prediction_type |-> type]
PolicyOffers ==
    { OfferOK, OfferLate, OfferMalformed,
      Offer(0, 300, "regression"), Offer(0, 900, "regression"),
      Offer(0, 300, "REGRESSION"), Offer(100, 401, "classification"),
      [message_creation_timestamp |-> 0, prediction_type |-> "regression"],
      [prediction_cutoff_timestamp |-> 300, prediction_type |-> "regression"],
      [this |-> "is", not |-> "correct"] }

InitPolicy ==
    /\ state = "AUTHENTICATING"
    /\ message_stack = <<>>
    /\ recv_job_config = None
    /\ callback = FALSE
    /\ access_token = NoneStr
    /\ model_id = NoneStr
    /\ config \in PolicyConfigs
    /\ conn = "idle"
    /\ sock_in = <<>>
    /\ sent = <<>>
    /\ calls = <<>>
    /\ pc = "policy"
    /\ err = ""
    /\ peer_frames = 0
    /\ lastRead = NoRead
    /\ op = "init"
    /\ verifier = NoVerifier
    /\ store = NoStore
    /\ parsed = NoParse

\* JobConfig.set_comparison_function
set_comparison_function(f) ==
    /\ pc = "policy"
    /\ config' = [config EXCEPT !.comparison_function = f]
    /\ op' = "set_comparison_function"
    /\ UNCHANGED enrollment_vars
    /\ UNCHANGED <<state, message_stack, recv_job_config, callback, access_token,
                   model_id, conn, sock_in, sent, calls, pc, err, peer_frames,
                   lastRead>>

\* a faulty compare: a call uses up the timeout of the policy
policy_compare_consuming(job_config) ==
    /\ pc = "policy"
    /\ Len(calls) < MaxCalls
    /\ calls' = Append(calls, [self |-> config, job_config |-> job_config,
                               result |-> compare(config, job_config)])
    /\ config' = [config EXCEPT !.max_timeout = 0]
    /\ op' = "compare"
    /\ UNCHANGED enrollment_vars
    /\ UNCHANGED <<state, message_stack, recv_job_config, callback, access_token,
                   model_id, conn, sock_in, sent, pc, err, peer_frames, lastRead>>

\* a call of JobConfig.compare on an offer: the policy it ran on, the offer
\* and the result are logged; the object is not assigned to
policy_compare(job_config) ==
    /\ pc = "policy"
    /\ Len(calls) < MaxCalls
    /\ calls' = Append(calls, [self |-> config, job_config |-> job_config,
                               result |-> compare(config, job_config)])
    /\ config' = config
    /\ op' = "compare"
    /\ UNCHANGED enrollment_vars
    /\ UNCHANGED <<state, message_stack, recv_job_config, callback, access_token,
                   model_id, conn, sock_in, sent, pc, err, peer_frames, lastRead>>

NextPolicy ==
    \/ \E f \in ComparisonFunctions : set_comparison_function(f)
    \/ \E job_config \in PolicyOffers : policy_compare(job_config)

SpecPolicy == InitPolicy /\ [][NextPolicy]_vars

----------------------------------------------------------------------------
(* The enrollment handshake: class Authentication of src/sybl/authenticate.py *)

\* base64.b64encode wraps bytes in their base64 text; base64.b64decode
\* unwraps a base64 text and raises binascii.Error on a text that is not one
\* (incorrect padding)
b64encode(x) == [b64 |-> x]
can_b64decode(x) == "b64" \in DOMAIN x
b64decode(x) == x.b64

\* crypto.load_privatekey accepts a PEM key only
is_pem(private_key) == private_key = "pem"

\* a faulty sign_challenge: the digest is SHA-1
sign_challenge_sha1(challenge, private_key) ==
    [signed |-> challenge, key |-> private_key, digest |-> "sha1"]

\* sign_challenge: the RSA/SHA-256 signature of the challenge under the key
sign_challenge(challenge, private_key) ==
    [signed |-> challenge, key |-> private_key, digest |-> "sha256"]

\* a faulty parse_message: the data of a message is the message itself
parse_message_whole(message) ==
    LET keys == DOMAIN message
    IN  IF Cardinality(keys) > 1
        THEN [res |-> "IndexError", variant |-> "", data |-> None]
        ELSE IF keys = {}
        THEN [res |-> "IndexError", variant |-> "", data |-> None]
        ELSE LET variant == CHOOSE k \in keys : TRUE
             IN  [res |-> "ok", variant |-> variant, data |-> message]

\* a faulty parse_message: a message with several keys is parsed by one of them
parse_message_lenient(message) ==
    LET keys == DOMAIN message
    IN  IF keys = {}
        THEN [res |-> "IndexError", variant |-> "", data |-> None]
        ELSE LET variant == CHOOSE k \in keys : TRUE
             IN  [res |-> "ok", variant |-> variant, data |-> message[variant]]

\* parse_message: IndexError is raised for more than one key and by keys[0]
\* for no key at all
parse_message(message) ==
    LET keys == DOMAIN message
    IN  IF Cardinality(keys) > 1
        THEN [res |-> "IndexError", variant |-> "", data |-> None]
        ELSE IF keys = {}
        THEN [res |-> "IndexError", variant |-> "", data |-> None]
        ELSE LET variant == CHOOSE k \in keys : TRUE
             IN  [res |-> "ok", variant |-> variant, data |-> message[variant]]

\* the identities that enroll, and the PRIVATE_KEY of the environment: a PEM
\* key, a text that is no PEM key, or not set
Verifiers ==
    [email : {"e@x"}, password : {TextX}, model_name : {"m", "n"},
     private_key : {"pem", "not-pem", NoneStr}]

\* the messages of the handshake
ChallengeMsg(c) == [Challenge |-> [challenge |-> c]]
EnrolledMsg(token, id) == [AccessToken |-> [token |-> token, id |-> id]]
ChallengeResponseMsg(email, model_name, response) ==
    [ChallengeResponse |-> [email |-> email, model_name |-> model_name,
                            response |-> response]]

\* what the peer writes during the handshake
EnrollFrames ==
    { PeerFrame(ChallengeMsg(b64encode("nonce")), SmallFrame),
      PeerFrame(ChallengeMsg(b64encode("nonce2")), LargeFrame),
      PeerFrame(ChallengeMsg([text |-> "abc"]), SmallFrame),
      PeerFrame([Challenge |-> [nonce |-> b64encode("nonce")]], SmallFrame),
      PeerFrame(EnrolledMsg("t1", "i1"), SmallFrame),
      PeerFrame([AccessToken |-> [token |-> "t1"]], SmallFrame),
      PeerFrame([AccessToken |-> [id |-> "i1"]], SmallFrame),
      PeerFrame(ServerMsg(ServerUnauthorized), SmallFrame),
      PeerFrame(ServerMsg(ServerLocked), SmallFrame),
      PeerFrame(ServerMsg(ServerUnknown), SmallFrame),
      PeerFrame([Other |-> [x |-> "y"]], SmallFrame),
      PeerFrame(EmptyObject, SmallFrame),
      PeerFrame([Challenge |-> [challenge |-> b64encode("nonce")],
                 AccessToken |-> [token |-> "t1", id |-> "i1"]], SmallFrame) }

\* main: the Authentication object is about to be built
InitEnroll ==
    /\ state = "AUTHENTICATING"
    /\ message_stack = <<>>
    /\ recv_job_config = None
    /\ callback = FALSE
    /\ access_token = NoneStr
    /\ model_id = NoneStr
    /\ config = ConfigDefault
    /\ conn = "idle"
    /\ sock_in = <<>>
    /\ sent = <<>>
    /\ calls = <<>>
    /\ pc = "main"
    /\ err = ""
    /\ peer_frames = 0
    /\ lastRead = NoRead
    /\ op = "init"
    /\ verifier \in Verifiers
    /\ store \in Stores
    /\ parsed = NoParse

\* a faulty __init__: the handshake goes on without a private key
Authentication_init_without_key ==
    /\ pc = "main"
    /\ op' = "Authentication_init"
    /\ pc' = "constructed" /\ err' = err
    /\ UNCHANGED <<state, message_stack, recv_job_config, callback, access_token,
                   model_id, config, conn, sock_in, sent, calls, peer_frames,
                   lastRead, verifier, store, parsed>>

\* Authentication.__init__ with load_priv_key: without PRIVATE_KEY in the
\* environment the process exits
Authentication_init ==
    /\ pc = "main"
    /\ op' = "Authentication_init"
    /\ IF verifier.private_key = NoneStr
       THEN Raise("SystemExit")
       ELSE pc' = "constructed" /\ err' = err
    /\ UNCHANGED <<state, message_stack, recv_job_config, callback, access_token,
                   model_id, config, conn, sock_in, sent, calls, peer_frames,
                   lastRead, verifier, store, parsed>>

\* Authentication.verify up to the loop: _connect, then the NewModel message
verify_connect(refused) ==
    /\ pc = "constructed"
    /\ op' = "verify_connect"
    /\ IF refused
       THEN Raise("SystemExit") /\ conn' = "refused" /\ UNCHANGED sent
       ELSE LET message == [NewModel |-> [email |-> verifier.email,
                                          password |-> verifier.password,
                                          model_name |-> verifier.model_name]]
            IN  /\ conn' = "connected"
                /\ sent' = Append(sent, Authentication_frame(message))
                /\ pc' = "verify"
                /\ err' = err
    /\ UNCHANGED <<state, message_stack, recv_job_config, callback, access_token,
                   model_id, config, sock_in, calls, peer_frames, lastRead,
                   verifier, store, parsed>>

\* the peer writes a frame while the handshake loops
peer_enroll(f) ==
    /\ pc = "verify"
    /\ peer_frames < MaxFrames
    /\ sock_in' = Append(sock_in, f)
    /\ peer_frames' = peer_frames + 1
    /\ op' = "peer_enroll"
    /\ UNCHANGED <<state, message_stack, recv_job_config, callback, access_token,
                   model_id, config, conn, sent, calls, pc, err, lastRead,
                   verifier, store, parsed>>

\* Authentication.authenticate_challenge: the exception that leaves it ("" for
\* none) and the messages it sends. KeyError of message["challenge"] is
\* raised before the try; binascii.Error and crypto.Error are not KeyError.
authenticate_challenge(self, message) ==
    IF "challenge" \notin DOMAIN message THEN [err |-> "KeyError", send |-> <<>>]
    ELSE IF ~can_b64decode(message.challenge)
    THEN [err |-> "binascii.Error", send |-> <<>>]
    ELSE IF ~is_pem(self.private_key) THEN [err |-> "crypto.Error", send |-> <<>>]
    ELSE LET signed_challenge ==
                 sign_challenge(b64decode(message.challenge), self.private_key)
         IN  [err |-> "",
              send |-> <<ChallengeResponseMsg(self.email, self.model_name,
                                              b64encode(signed_challenge))>>]

\* Authentication.display_access: the access token and the model id of the
\* object afterwards; a missing key stops the assignments (KeyError, caught)
display_access(message, token, id) ==
    IF "token" \notin DOMAIN message THEN [access_token |-> token, model_id |-> id]
    ELSE IF "id" \notin DOMAIN message
    THEN [access_token |-> message.token, model_id |-> id]
    ELSE [access_token |-> message.token, model_id |-> message.id]

\* a faulty save_access_tokens: the file is written with the new entry alone
save_access_tokens_overwrite(self, id, token, file) ==
    IF file.file = "corrupt"
    THEN [err |-> "JSONDecodeError", store |-> file]
    ELSE [err |-> "",
          store |-> [file |-> "json",
                     json |-> put(EmptyObject, key_name(self.email, self.model_name),
                                  new_model(id, token))]]

\* Authentication.save_access_tokens: the exception that leaves it and the
\* file afterwards; a missing file is created, an empty one is read as {}
save_access_tokens(self, id, token, file) ==
    IF file.file = "corrupt"
    THEN [err |-> "JSONDecodeError", store |-> file]
    ELSE [err |-> "",
          store |-> [file |-> "json",
                     json |-> put(file.json, key_name(self.email, self.model_name),
                                  new_model(id, token))]]

RECURSIVE Authentication_frames(_)
Authentication_frames(ms) ==
    IF ms = <<>> THEN <<>>
    ELSE <<Authentication_frame(Head(ms))>> \o Authentication_frames(Tail(ms))

\* a faulty dispatch: an unexpected variant is taken for an access token
verify_branch_default_access(variant) ==
    IF variant = "Challenge" THEN "authenticate_challenge" ELSE "display_access"

\* a faulty dispatch: an access token is taken for an unexpected variant
verify_branch_access_ignored(variant) ==
    IF variant = "Challenge" THEN "authenticate_challenge" ELSE "warn"

\* the dispatch of Authentication.verify on the variant of a parsed message
verify_branch(variant) ==
    IF variant = "Challenge" THEN "authenticate_challenge"
    ELSE IF variant = "AccessToken" THEN "display_access"
    ELSE "warn"

\* one iteration of the loop of Authentication.verify
verify_loop(caps) ==
    LET r == read_message("Authentication", sock_in, caps)
        p == parse_message(r.msg)
    IN  /\ pc = "verify"
        /\ sock_in # <<>>
        /\ r.res # "blocked"
        /\ lastRead' = r
        /\ sock_in' = after_read(sock_in, r)
        /\ op' = "verify_loop"
        /\ IF r.res # "ok"
           THEN /\ Raise(r.res)
                /\ conn' = IF r.res = "SystemExit" THEN "closed" ELSE conn
                /\ UNCHANGED <<sent, access_token, model_id, store, parsed>>
           ELSE /\ parsed' = p
                /\ IF p.res # "ok"
                   THEN Return /\ UNCHANGED <<sent, access_token, model_id, store, conn>>
                   ELSE IF verify_branch(p.variant) = "authenticate_challenge"
                   THEN LET a == authenticate_challenge(verifier, p.data)
                        IN  /\ sent' = sent \o Authentication_frames(a.send)
                            /\ IF a.err = "" THEN Return ELSE Raise(a.err)
                            /\ UNCHANGED <<access_token, model_id, store, conn>>
                   ELSE IF verify_branch(p.variant) = "display_access"
                   THEN LET d == display_access(p.data, access_token, model_id)
                            s == save_access_tokens(verifier, d.model_id,
                                                    d.access_token, store)
                        IN  /\ access_token' = d.access_token
                            /\ model_id' = d.model_id
                            /\ conn' = "closed"
                            /\ store' = s.store
                            /\ IF s.err = "" THEN pc' = "done" /\ err' = err
                               ELSE Raise(s.err)
                            /\ UNCHANGED sent
                   ELSE Return /\ UNCHANGED <<sent, access_token, model_id, store, conn>>
        /\ UNCHANGED <<state, message_stack, recv_job_config, callback, config,
                       calls, peer_frames, verifier>>

\* what the recv calls of one read may return: the prefix and the first
\* payload read come short or whole, later reads return all there is
EnrollCaps == {caps \in Caps : \A i \in 3..MaxRecvs : caps[i] = ChunkSize}

NextEnroll ==
    \/ Authentication_init
    \/ \E refused \in BOOLEAN : verify_connect(refused)
    \/ \E f \in EnrollFrames : peer_enroll(f)
    \/ \E caps \in EnrollCaps : verify_loop(caps)

SpecEnroll == InitEnroll /\ [][NextEnroll]_vars

----------------------------------------------------------------------------
(* The credential store on its own: Authentication.save_access_tokens       *)
(* writes sybl.json and load_access_token reads it, as the tests            *)
(* test_load_access_token, test_bad_model_name and test_file_does_not_exist *)
(* of src/tests/test_client.py do.                                          *)

InitStore ==
    /\ state = "AUTHENTICATING"
    /\ message_stack = <<>>
    /\ recv_job_config = None
    /\ callback = FALSE
    /\ access_token = NoneStr
    /\ model_id = NoneStr
    /\ config = ConfigDefault
    /\ conn = "idle"
    /\ sock_in = <<>>
    /\ sent = <<>>
    /\ calls = <<>>
    /\ pc = "store"
    /\ err = ""
    /\ peer_frames = 0
    /\ lastRead = NoRead
    /\ op = "init"
    /\ verifier \in {v \in Verifiers : v.private_key = "pem"}
    /\ store \in Stores
    /\ parsed = NoParse

\* instance.model_id = id; instance.access_token = token;
\* instance.save_access_tokens()
store_save(id, token) ==
    LET s == save_access_tokens(verifier, id, token, store)
    IN  /\ pc = "store"
        /\ Len(calls) < MaxCalls
        /\ access_token' = token
        /\ model_id' = id
        /\ store' = s.store
        /\ calls' = Append(calls, [op |-> "save", email |-> verifier.email,
                                   model_name |-> verifier.model_name,
                                   res |-> IF s.err = "" THEN "ok" ELSE s.err,
                                   access_token |-> token, model_id |-> id])
        /\ op' = "save"
        /\ UNCHANGED <<state, message_stack, recv_job_config, callback, config, conn,
                       sock_in, sent, pc, err, peer_frames, lastRead, verifier, parsed>>

\* load_access_token(email, model_name), the exception it raises caught
store_load(email, model_name) ==
    LET l == load_access_token(email, model_name, store)
    IN  /\ pc = "store"
        /\ Len(calls) < MaxCalls
        /\ calls' = Append(calls, [op |-> "load", email |-> email,
                                   model_name |-> model_name, res |-> l.res,
                                   access_token |-> l.access_token,
                                   model_id |-> l.model_id])
        /\ op' = "load"
        /\ UNCHANGED <<state, message_stack, recv_job_config, callback, access_token,
                       model_id, config, conn, sock_in, sent, pc, err, peer_frames,
                       lastRead, verifier, store, parsed>>

NextStore ==
    \/ \E c \in NewCredentials : store_save(c[1], c[2])
    \/ \E i \in Identities : store_load(i[1], i[2])

SpecStore == InitStore /\ [][NextStore]_vars

----------------------------------------------------------------------------
(* prepare_datasets on its own, called on two tables as test_prepare_dataset *)
(* and test_bad_data_prepare_data of src/tests/test_client.py do.            *)

Tables ==
    { TrainA, PredictA, TrainNoId,
      [cols |-> <<"a", "record_id", "b">>,
       rows |-> << <<10, 3, 7>>, <<20, 1, 8>>, <<30, 3, 9>> >>],
      [cols |-> <<"record_id">>, rows |-> << <<5>> >>],
      [cols |-> <<"a", "b">>, rows |-> << <<10, 7>> >>] }

InitPrepare ==
    /\ state = "AUTHENTICATING"
    /\ message_stack = <<>>
    /\ recv_job_config = None
    /\ callback = FALSE
    /\ access_token = NoneStr
    /\ model_id = NoneStr
    /\ config = ConfigDefault
    /\ conn = "idle"
    /\ sock_in = <<>>
    /\ sent = <<>>
    /\ calls = <<>>
    /\ pc = "prepare"
    /\ err = ""
    /\ peer_frames = 0
    /\ lastRead = NoRead
    /\ op = "init"
    /\ verifier = NoVerifier
    /\ store = NoStore
    /\ parsed = NoParse

\* prepare_datasets(train, prediction): what it was given, what it returned
\* or raised, and the train table as the call left it
prepare(train, prediction) ==
    LET r == prepare_datasets(train, prediction)
    IN  /\ pc = "prepare"
        /\ Len(calls) < MaxCalls
        /\ calls' = Append(calls, [given_train |-> train, given_prediction |-> prediction,
                                   res |-> r.res, train |-> r.train,
                                   prediction |-> r.prediction,
                                   predict_rids |-> r.predict_rids])
        /\ op' = "prepare_datasets"
        /\ UNCHANGED <<state, message_stack, recv_job_config, callback, access_token,
                       model_id, config, conn, sock_in, sent, pc, err, peer_frames,
                       lastRead, verifier, store, parsed>>

NextPrepare == \E train \in Tables, prediction \in Tables : prepare(train, prediction)

SpecPrepare == InitPrepare /\ [][NextPrepare]_vars

----------------------------------------------------------------------------
(* Properties *)

\* the table carried by a Predictions message
PredictionsTable(m) == read_csv(decode_and_decompress(m.Predictions))
IsPredictions(m) == DOMAIN m = {"Predictions"}

\* the record ids of a table, row by row
RecordIds(t) ==
    LET i == CHOOSE c \in 1..Len(t.cols) : t.cols[c] = "record_id"
    IN  [r \in 1..Len(t.rows) |-> t.rows[r][i]]

FirstColumn(t) == [r \in 1..Len(t.rows) |-> t.rows[r][1]]

\* the message stack holds, on top, a Dataset whose two tables decode and
\* both carry record_id
BufferedGoodDataset ==
    /\ message_stack # <<>>
    /\ "Dataset" \in DOMAIN Last(message_stack)
    /\ LET d == Last(message_stack).Dataset
       IN  /\ can_decode(d.train) /\ can_decode(d.predict)
           /\ Has(read_csv(decode_and_decompress(d.train)).cols, "record_id")
           /\ Has(read_csv(decode_and_decompress(d.predict)).cols, "record_id")

BufferedTrain == read_csv(decode_and_decompress(Last(message_stack).Dataset.train))
BufferedPredict == read_csv(decode_and_decompress(Last(message_stack).Dataset.predict))

\* C1: Framing round trip. A receive on the stream a send wrote to returns
\* the message that was sent, unchanged, whether the encoded payload is at
\* most 4096 bytes or larger.
C1_RoundTrip ==
    op = "receive" =>
        /\ lastRead.res = "ok"
        /\ lastRead.msg = lastRead.frame.payload.msg

\* C2: A receive that has read the length prefix L of a frame accumulates
\* exactly L payload bytes, takes exactly 4 + L bytes off the stream and
\* returns the message of that frame, however the bytes are split across
\* reads and whatever is queued behind the frame.
C2_ExactRead ==
    (op = "receive" /\ lastRead.res # "struct.error") =>
        /\ lastRead.buf = lastRead.size
        /\ lastRead.consumed = HeaderLen + lastRead.size
        /\ lastRead.res = "ok"

\* C3: Every send of either client makes exactly one write, and the 4-byte
\* prefix of that write equals the number of bytes of the encoded payload
\* that follows it.
C3_PrefixIsPayloadLength ==
    [][op' = "send" =>
         /\ Len(sent') = Len(sent) + 1
         /\ Front(sent') = sent
         /\ Last(sent').prefix = Last(sent').payload.bytes
         /\ sock_in' = Append(sock_in, Last(sent'))]_vars

\* a message with non-ASCII characters and a message longer than a chunk
\* have been sent
C3_Witness ==
    /\ op = "send"
    /\ \E i \in 1..Len(sent) : RawWide(sent[i].payload.msg, DOMAIN sent[i].payload.msg) > 0
    /\ \E i \in 1..Len(sent) : sent[i].payload.bytes > ChunkSize

\* C4: In state HEARTBEAT, a received message with the Alive variant is sent
\* back unchanged exactly once, the state stays HEARTBEAT and nothing is
\* buffered.
C4_AliveEchoed ==
    [][(pc = "loop" /\ state = "HEARTBEAT" /\ op' = "message_control"
          /\ lastRead'.res = "ok" /\ "Alive" \in DOMAIN lastRead'.msg) =>
         /\ Len(sent') = Len(sent) + 1
         /\ Front(sent') = sent
         /\ Last(sent').payload.msg = lastRead'.msg
         /\ state' = "HEARTBEAT"
         /\ message_stack' = message_stack]_vars

C4_Witness ==
    /\ pc = "loop" /\ op = "message_control" /\ lastRead.res = "ok"
    /\ DOMAIN lastRead.msg = {"Alive"}
    /\ sent # <<>> /\ Last(sent).payload.msg = lastRead.msg
    /\ state = "HEARTBEAT"

\* C5: In state HEARTBEAT, a received message of the JobConfig variant moves
\* the state to READ_JOB with exactly that message on the message stack, and
\* nothing is sent.
C5_JobConfigBuffered ==
    [][(pc = "loop" /\ state = "HEARTBEAT" /\ op' = "message_control"
          /\ lastRead'.res = "ok" /\ DOMAIN lastRead'.msg = {"JobConfig"}) =>
         /\ state' = "READ_JOB"
         /\ message_stack' = <<lastRead'.msg>>
         /\ sent' = sent]_vars

C5_Witness ==
    /\ pc = "loop" /\ op = "message_control" /\ lastRead.res = "ok"
    /\ DOMAIN lastRead.msg = {"JobConfig"}
    /\ state = "READ_JOB" /\ message_stack = <<lastRead.msg>>

\* C6: In state HEARTBEAT, a received message of the Dataset variant moves
\* the state to PROCESSING with exactly that message on the message stack,
\* and nothing is sent.
C6_DatasetBuffered ==
    [][(pc = "loop" /\ state = "HEARTBEAT" /\ op' = "message_control"
          /\ lastRead'.res = "ok" /\ DOMAIN lastRead'.msg = {"Dataset"}) =>
         /\ state' = "PROCESSING"
         /\ message_stack' = <<lastRead'.msg>>
         /\ sent' = sent]_vars

C6_Witness ==
    /\ pc = "loop" /\ op = "message_control" /\ lastRead.res = "ok"
    /\ DOMAIN lastRead.msg = {"Dataset"}
    /\ state = "PROCESSING" /\ message_stack = <<lastRead.msg>>

\* C7: In state READ_JOB with a JobConfig message buffered, the session sends
\* exactly one ConfigResponse whose accept flag is the policy's verdict on
\* that offer, and the state is HEARTBEAT afterwards, accepted or not.
C7_ConfigResponse ==
    [][(pc = "loop" /\ state = "READ_JOB" /\ op' = "process_job_config"
          /\ message_stack # <<>> /\ "JobConfig" \in DOMAIN Last(message_stack)) =>
         /\ Len(sent') = Len(sent) + 1
         /\ Front(sent') = sent
         /\ Last(sent').payload.msg =
                [ConfigResponse |->
                    [accept |-> compare(config, Last(message_stack).JobConfig)]]
         /\ state' = "HEARTBEAT"
         /\ pc' = "loop"]_vars

\* an offer has been accepted and an offer has been declined
C7_Witness ==
    /\ pc = "loop" /\ op = "process_job_config" /\ state = "HEARTBEAT"
    /\ \E i \in 1..Len(sent) :
          sent[i].payload.msg = [ConfigResponse |-> [accept |-> TRUE]]
    /\ \E i \in 1..Len(sent) :
          sent[i].payload.msg = [ConfigResponse |-> [accept |-> FALSE]]

\* C8: A phase that expects a buffered message (READ_JOB running
\* _process_job_config, PROCESSING running _process_job) and finds the
\* message stack empty does not fail: nothing is sent and the state becomes
\* HEARTBEAT.
C8_EmptyStackRecovers ==
    [][(pc = "unit" /\ message_stack = <<>>
          /\ \/ state = "READ_JOB" /\ op' = "process_job_config"
             \/ state = "PROCESSING" /\ op' = "process_job") =>
         /\ pc' = "unit"
         /\ err' = ""
         /\ sent' = sent
         /\ state' = "HEARTBEAT"]_vars

\* what the session does with the Work Callback on a good dataset: one call,
\* with the two tables stripped of record_id and the remembered offer
CallbackCalledOnce ==
    /\ Len(calls') = Len(calls) + 1
    /\ Front(calls') = calls
    /\ Last(calls').train = drop(BufferedTrain, "record_id")
    /\ Last(calls').predict = drop(BufferedPredict, "record_id")
    /\ Last(calls').job_config = recv_job_config

\* one Predictions message is sent; its table starts with the record_id
\* column, which holds the record ids of the predict set in their row order
PredictionsSent ==
    /\ Len(sent') = Len(sent) + 1
    /\ Front(sent') = sent
    /\ IsPredictions(Last(sent').payload.msg)
    /\ LET t == PredictionsTable(Last(sent').payload.msg)
       IN  /\ t.cols[1] = "record_id"
           /\ FirstColumn(t) = RecordIds(BufferedPredict)

ProcessingGoodDataset ==
    /\ pc = "loop" /\ state = "PROCESSING" /\ op' = "process_job"
    /\ BufferedGoodDataset

\* C9 as stated: in state PROCESSING with a buffered Dataset whose tables
\* both carry record_id, the Work Callback is invoked exactly once with
\* (train, predict, remembered offer), exactly one Predictions message is
\* sent, with record_id as first column holding the predict set's record ids
\* in row order, and the state is HEARTBEAT afterwards.
C9_Original ==
    [][ProcessingGoodDataset =>
         /\ CallbackCalledOnce
         /\ PredictionsSent
         /\ state' = "HEARTBEAT"]_vars

\* one Predictions message is sent; its table has a row for every row of
\* the predict set and a record_id column that holds the record ids of the
\* predict set in their row order
PredictionsWithRecordIds ==
    /\ Len(sent') = Len(sent) + 1
    /\ Front(sent') = sent
    /\ IsPredictions(Last(sent').payload.msg)
    /\ LET t == PredictionsTable(Last(sent').payload.msg)
       IN  /\ Len(t.rows) = Len(BufferedPredict.rows)
           /\ Has(t.cols, "record_id")
           /\ RecordIds(t) = RecordIds(BufferedPredict)

\* the result of the Work Callback carries a record_id column of its own
\* that is not its last column
OwnRecordIdNotLast(result) ==
    Has(result.cols, "record_id") /\ Last(result.cols) # "record_id"

\* C9 amended: the Work Callback is invoked exactly once with (train,
\* predict, remembered offer). When its result has rows, and not as many as
\* the predict set, the handler raises ValueError, nothing is sent and the
\* state stays PROCESSING. Otherwise (as many rows as the predict set, or
\* no rows at all) exactly one Predictions message is sent and the state is
\* HEARTBEAT afterwards; the table sent has a row for every row of the
\* predict set and a record_id column holding the predict set's record ids
\* in their original row order; record_id is its first column, except when
\* the result carried a record_id column of its own that was not its last
\* column: then another column of the result comes first.
C9_Predictions ==
    [][ProcessingGoodDataset =>
         /\ CallbackCalledOnce
         /\ LET result == Last(calls').result
                n == Len(result.rows)
            IN  IF n # 0 /\ n # Len(BufferedPredict.rows)
                THEN /\ sent' = sent /\ state' = "PROCESSING"
                     /\ pc' = "raised" /\ err' = "ValueError"
                ELSE /\ PredictionsWithRecordIds
                     /\ state' = "HEARTBEAT" /\ pc' = "loop"
                     /\ LET t == PredictionsTable(Last(sent').payload.msg)
                        IN  t.cols[1] = "record_id" <=> ~OwnRecordIdNotLast(result)]_vars

C9_Witness ==
    /\ pc = "loop" /\ op = "process_job" /\ state = "HEARTBEAT"
    /\ calls # <<>> /\ ~Has(Last(calls).result.cols, "record_id")
    /\ Last(calls).job_config = OfferOK
    /\ sent # <<>> /\ IsPredictions(Last(sent).payload.msg)
    /\ PredictionsTable(Last(sent).payload.msg).cols = <<"record_id", "e">>
    /\ FirstColumn(PredictionsTable(Last(sent).payload.msg)) = <<4, 3>>

\* the AccessToken messages among the writes
AccessTokensSent == {i \in 1..Len(sent) : DOMAIN sent[i].payload.msg = {"AccessToken"}}

ReplySucceeds(m) == "message" \in DOMAIN m /\ m.message = "Authentication successful"

\* C10: connect, with a callback and a credential, moves the session from
\* AUTHENTICATING to HEARTBEAT and enters the loop exactly when the reply to
\* AccessToken carries the success text; otherwise it raises PermissionError,
\* the state stays AUTHENTICATING, the loop is never entered and AccessToken
\* is not sent again.
C10_ConnectAuthenticates ==
    /\ [][(pc = "auth" /\ op' = "connect_reply" /\ lastRead'.res = "ok") =>
            IF ReplySucceeds(lastRead'.msg)
            THEN state = "AUTHENTICATING" /\ state' = "HEARTBEAT" /\ pc' = "loop"
            ELSE /\ pc' = "raised" /\ err' = "PermissionError"
                 /\ state' = "AUTHENTICATING" /\ sent' = sent]_vars
    /\ [][(pc # "loop" /\ pc' = "loop") =>
            (pc = "auth" /\ lastRead'.res = "ok" /\ ReplySucceeds(lastRead'.msg))]_vars
    /\ [][(conn = "connected" /\ Returned) =>
              (Returned' /\ conn' = conn /\ state' = state /\ sent' = sent)]_vars
    /\ [](Cardinality(AccessTokensSent) <= 1)
    /\ [](state # "AUTHENTICATING" => (conn = "connected" /\ pc # "auth"))

C10_Witness ==
    /\ pc = "raised" /\ err = "PermissionError" /\ op = "connect_reply"
    /\ state = "AUTHENTICATING"
    /\ lastRead.res = "ok" /\ lastRead.msg = StatusMsg("Authentication unsuccessful")
    /\ Cardinality(AccessTokensSent) = 1

\* the cases connect refuses to start in
NoCallback == ~callback
NoCredential == access_token \in {NoneStr, ""} \/ model_id \in {NoneStr, ""}

\* C11: connect, called without a registered callback or without a loaded
\* credential (access token and model id), raises AttributeError before any
\* connection attempt and before any message is sent, and the state remains
\* AUTHENTICATING.
C11_ConnectPreconditions ==
    /\ [][(op' = "connect" /\ (NoCallback \/ NoCredential)) =>
            /\ pc' = "raised" /\ err' = "AttributeError"
            /\ conn' = conn /\ sent' = sent
            /\ state' = state]_vars
    /\ [][(conn # "connected" /\ (NoCallback \/ NoCredential)) => conn' = conn]_vars
    /\ [](conn # "connected" =>
            (sent = <<>> /\ state = "AUTHENTICATING" /\ Returned))

C11_Witness ==
    /\ pc = "raised" /\ err = "AttributeError" /\ op = "connect"
    /\ callback /\ access_token = NoneStr
    /\ conn = "idle" /\ sent = <<>> /\ state = "AUTHENTICATING"

\* the AccessToken message of a credential
AccessTokenMsg(id, token) == [AccessToken |-> [id |-> id, token |-> token]]

\* C12: the authentication step sends AccessToken{id, token} exactly once and
\* reads exactly one reply; it reports success exactly when the reply's
\* status text is "Authentication successful"; any other status text and a
\* reply without a status text are reported as not authenticated (connect
\* then raises PermissionError): no KeyError leaves the step.
C12_AuthenticationStep ==
    /\ [][(pc # "auth" /\ pc' = "auth") =>
            /\ Len(sent') = 1
            /\ sent'[1].payload.msg = AccessTokenMsg(model_id, access_token)]_vars
    /\ [](pc = "auth" => (Len(sent) = 1 /\ lastRead = NoRead))
    /\ [][(pc = "auth" /\ op' = "connect_reply") => (pc' # "auth" /\ sent' = sent)]_vars
    /\ [][(pc = "auth" /\ op' = "connect_reply" /\ lastRead'.res = "ok") =>
            LET reply == lastRead'.msg
                success == IF "message" \in DOMAIN reply
                           THEN reply.message = "Authentication successful"
                           ELSE FALSE
            IN  /\ success <=> pc' = "loop"
                /\ ~success <=> (pc' = "raised" /\ err' = "PermissionError")]_vars

C12_Witness ==
    /\ pc = "raised" /\ err = "PermissionError" /\ op = "connect_reply"
    /\ lastRead.res = "ok" /\ lastRead.msg = [bad |-> "response"]
    /\ Len(sent) = 1 /\ sent[1].payload.msg = AccessTokenMsg("id", "token")

\* an offer that has the three fields a job offer needs
HasAllFields(o) ==
    {"message_creation_timestamp", "prediction_cutoff_timestamp", "prediction_type"}
        \subseteq DOMAIN o

\* C13: an offer that lacks one of message_creation_timestamp,
\* prediction_cutoff_timestamp and prediction_type is rejected by compare,
\* with or without a custom predicate installed; the session answers it with
\* exactly one ConfigResponse{accept: false}, does not remember it, and
\* continues in HEARTBEAT.
C13_MalformedOfferDeclined ==
    [][(/\ pc = "loop" /\ state = "READ_JOB" /\ op' = "process_job_config"
        /\ message_stack # <<>>
        /\ "JobConfig" \in DOMAIN Last(message_stack)
        /\ ~HasAllFields(Last(message_stack).JobConfig)) =>
            /\ Len(sent') = Len(sent) + 1
            /\ Last(sent').payload.msg = [ConfigResponse |-> [accept |-> FALSE]]
            /\ recv_job_config' = recv_job_config
            /\ state' = "HEARTBEAT" /\ pc' = "loop"]_vars

C13_Witness ==
    /\ pc = "loop" /\ state = "HEARTBEAT" /\ op = "process_job_config"
    /\ config.comparison_function = "accept_all"
    /\ lastRead.res = "ok" /\ lastRead.msg = JobConfigMsg(OfferMalformed)
    /\ sent # <<>> /\ Last(sent).payload.msg = [ConfigResponse |-> [accept |-> FALSE]]
    /\ recv_job_config = None

\* a compare call has just been made and logged
Compared == op' = "compare" /\ Len(calls') = Len(calls) + 1

\* C14: with a custom predicate installed and an offer that has the three
\* required fields, compare returns the predicate's result; the timeout and
\* the allowed types of the policy have no influence on it.
C14_CustomPredicateDecides ==
    [][(/\ Compared
        /\ config.comparison_function # "None"
        /\ HasAllFields(Last(calls').job_config)) =>
            LET c == Last(calls')
            IN  /\ c.self = config
                /\ c.result = comparison_function(config.comparison_function, c.job_config)
                /\ \A p \in PolicyConfigs :
                       p.comparison_function = config.comparison_function =>
                           compare(p, c.job_config) = c.result]_vars

C14_Witness ==
    /\ op = "compare" /\ calls # <<>>
    /\ Last(calls).self = [prediction_types |-> {"classification"}, max_timeout |-> 5,
                           comparison_function |-> "accept_all"]
    /\ Last(calls).job_config = OfferOK
    /\ Last(calls).result = TRUE

\* C15: without a custom predicate, an offer that has the three required
\* fields is accepted exactly when cutoff - creation <= max_timeout * 60 (the
\* boundary is accepted) and its prediction_type equals one of the allowed
\* types, letter case ignored.
C15_DefaultPolicy ==
    [][(/\ Compared
        /\ config.comparison_function = "None"
        /\ HasAllFields(Last(calls').job_config)) =>
            LET c == Last(calls')
                o == c.job_config
                in_time == o.prediction_cutoff_timestamp - o.message_creation_timestamp
                               <= config.max_timeout * 60
                allowed == \E t \in config.prediction_types :
                               lower(t) = lower(o.prediction_type)
            IN  c.result <=> (in_time /\ allowed)]_vars

\* C16: compare changes neither the policy nor the offer, and two calls in a
\* row with the same offer return the same result.
C16_CompareIsPure ==
    /\ [][Compared => (config' = config /\ Last(calls').self = config)]_vars
    /\ [][(/\ Compared /\ op = "compare"
           /\ Last(calls').job_config = Last(calls).job_config) =>
               Last(calls').result = Last(calls).result]_vars

C16_Witness ==
    /\ op = "compare" /\ Len(calls) = 2
    /\ calls[1].job_config = OfferOK /\ calls[2].job_config = OfferOK
    /\ calls[1].self = config /\ calls[2].self = config
    /\ config.comparison_function = "None"
    /\ calls[1].result = TRUE /\ calls[2].result = TRUE

\* an iteration of the handshake loop has just read a message
HandshakeRead == pc = "verify" /\ op' = "verify_loop" /\ lastRead'.res = "ok"

\* C17: for every message with exactly one top-level key k, parse_message
\* returns the pair (k, message[k]).
C17_ParseSingleKey ==
    [][(HandshakeRead /\ Cardinality(DOMAIN lastRead'.msg) = 1) =>
            /\ parsed'.res = "ok"
            /\ parsed'.variant \in DOMAIN lastRead'.msg
            /\ parsed'.data = lastRead'.msg[parsed'.variant]]_vars

C17_Witness ==
    /\ op = "verify_loop" /\ lastRead.res = "ok"
    /\ DOMAIN lastRead.msg = {"Other"}
    /\ parsed.res = "ok" /\ parsed.variant = "Other" /\ parsed.data = [x |-> "y"]

\* C18: for every message with no top-level key or with two or more,
\* parse_message raises IndexError and returns no pair.
C18_ParseOtherwiseFails ==
    [][(HandshakeRead /\ Cardinality(DOMAIN lastRead'.msg) # 1) =>
            /\ parsed'.res = "IndexError"
            /\ parsed'.variant = ""]_vars

C18_Witness ==
    /\ op = "verify_loop" /\ lastRead.res = "ok"
    /\ DOMAIN lastRead.msg = {"Challenge", "AccessToken"}
    /\ parsed.res = "IndexError"

\* a Challenge message as the protocol defines it: one key, a challenge
\* field, a base64 text in it
WellFormedChallenge(m) ==
    /\ DOMAIN m = {"Challenge"}
    /\ "challenge" \in DOMAIN m.Challenge
    /\ "b64" \in DOMAIN m.Challenge.challenge

\* the signature the handshake owes for a challenge
SignatureOver(m) ==
    [signed |-> m.Challenge.challenge.b64, key |-> verifier.private_key,
     digest |-> "sha256"]

\* C19: in the enrollment loop, with a PEM private key, each received
\* Challenge makes the handshake send exactly one ChallengeResponse with the
\* enrolling email and model name and the base64 of the signature over the
\* decoded challenge; the handshake stays in the loop, nothing is persisted
\* and the connection stays open.
C19_ChallengeAnswered ==
    [][(/\ HandshakeRead
        /\ WellFormedChallenge(lastRead'.msg)
        /\ verifier.private_key = "pem") =>
            /\ Len(sent') = Len(sent) + 1
            /\ Front(sent') = sent
            /\ Last(sent').payload.msg =
                   [ChallengeResponse |->
                       [email |-> verifier.email, model_name |-> verifier.model_name,
                        response |-> [b64 |-> SignatureOver(lastRead'.msg)]]]
            /\ pc' = "verify"
            /\ store' = store /\ conn' = "connected"
            /\ access_token' = access_token /\ model_id' = model_id]_vars

C19_Witness ==
    /\ pc = "verify" /\ op = "verify_loop" /\ conn = "connected"
    /\ lastRead.res = "ok" /\ WellFormedChallenge(lastRead.msg)
    /\ Len(sent) = 2
    /\ DOMAIN sent[1].payload.msg = {"NewModel"}
    /\ DOMAIN sent[2].payload.msg = {"ChallengeResponse"}
    /\ sent[2].payload.msg.ChallengeResponse.response.b64.signed = "nonce"
    /\ store = NoStore

\* an AccessToken message of the handshake as the protocol defines it
WellFormedAccessToken(m) ==
    DOMAIN m = {"AccessToken"} /\ {"token", "id"} \subseteq DOMAIN m.AccessToken

\* the key of the enrolling identity in the store
EnrollKey == verifier.email \o "." \o verifier.model_name

\* C20: in the enrollment loop, a received AccessToken{token, id} is recorded
\* in the object, the connection is closed and nothing more is sent; with a
\* readable store the loop ends and the store then holds, under
\* "{email}.{model_name}", the received token and id, every other entry being
\* as it was; nothing runs after the loop has ended.
C20_AccessTokenPersisted ==
    /\ [][(HandshakeRead /\ WellFormedAccessToken(lastRead'.msg)) =>
            LET d == lastRead'.msg.AccessToken
            IN  /\ access_token' = d.token /\ model_id' = d.id
                /\ conn' = "closed" /\ sent' = sent
                /\ store.file # "corrupt" =>
                      /\ pc' = "done"
                      /\ store'.file = "json"
                      /\ DOMAIN store'.json = DOMAIN store.json \cup {EnrollKey}
                      /\ store'.json[EnrollKey] =
                             [model_id |-> d.id, access_token |-> d.token]
                      /\ \A k \in DOMAIN store.json \ {EnrollKey} :
                             store'.json[k] = store.json[k]]_vars
    /\ [][pc # "done"]_vars

C20_Witness ==
    /\ pc = "done" /\ op = "verify_loop" /\ conn = "closed"
    /\ Len(sent) = 2 /\ DOMAIN sent[2].payload.msg = {"ChallengeResponse"}
    /\ lastRead.res = "ok" /\ WellFormedAccessToken(lastRead.msg)
    /\ access_token = "t1" /\ model_id = "i1"
    /\ verifier.model_name = "m"
    /\ DOMAIN store.json = {"e@x.m"}
    /\ store.json["e@x.m"] = [model_id |-> "i1", access_token |-> "t1"]

\* a step in which _read_message ran: in connect, in the session loop, in
\* the handshake loop
ReadStep == op' \in {"connect_reply", "message_control", "verify_loop"}

\* the message text a received Server message reports, "" when it reports none
ServerErrorText(m) ==
    IF /\ "Server" \in DOMAIN m
       /\ "text" \in DOMAIN m.Server
       /\ "json" \in DOMAIN m.Server.text
       /\ "message" \in DOMAIN m.Server.text.json
    THEN m.Server.text.json.message
    ELSE ""

\* C21: in the handshake and in the session, a received Server message that
\* reports "Unauthorized" or "Locked" closes the connection and ends the
\* process with a non-zero status; nothing is sent or received afterwards.
C21_FatalServerError ==
    /\ [][(ReadStep /\ ServerErrorText(lastRead'.msg) \in {"Unauthorized", "Locked"}) =>
            /\ pc' = "exited" /\ err' = "SystemExit"
            /\ conn' = "closed"
            /\ sent' = sent]_vars
    /\ [][pc = "exited" => (sent' = sent /\ lastRead' = lastRead)]_vars

\* C22: a received Server message that reports no recognized message (its
\* payload has another message, no message, or is missing) ends the process
\* instead of letting the receive loop continue.
C22_UnknownServerErrorFatal ==
    [][(/\ ReadStep
        /\ "Server" \in DOMAIN lastRead'.msg
        /\ ServerErrorText(lastRead'.msg) \notin {"Unauthorized", "Locked"}) =>
            (pc' \in {"exited", "raised"} /\ sent' = sent)]_vars

\* C23: in the enrollment loop, a received message whose one variant is none
\* of Challenge, AccessToken and Server is ignored: nothing is sent, nothing
\* is persisted or recorded, the connection stays open and the handshake
\* stays in the loop, where it receives the next message.
C23_OtherVariantIgnored ==
    [][(/\ HandshakeRead
        /\ Cardinality(DOMAIN lastRead'.msg) = 1
        /\ DOMAIN lastRead'.msg \cap {"Challenge", "AccessToken", "Server"} = {}) =>
            /\ sent' = sent /\ store' = store
            /\ access_token' = access_token /\ model_id' = model_id
            /\ conn' = "connected"
            /\ pc' = "verify" /\ err' = ""]_vars

\* an unexpected variant was ignored; the handshake is in the loop with the
\* next frame waiting
C23_Witness ==
    /\ pc = "verify" /\ op = "verify_loop" /\ conn = "connected"
    /\ lastRead.res = "ok" /\ DOMAIN lastRead.msg = {"Other"}
    /\ parsed.res = "ok" /\ parsed.variant = "Other"
    /\ Len(sent) = 1 /\ store = NoStore /\ access_token = NoneStr
    /\ sock_in # <<>>

\* a call on the store has just been made and logged
Saved == op' = "save" /\ Len(calls') = Len(calls) + 1
Loaded == op' = "load" /\ Len(calls') = Len(calls) + 1
StoreKey(c) == c.email \o "." \o c.model_name

\* C24: saving a credential on a store that is absent, empty or a JSON
\* object leaves a JSON object that holds the saved id and token under
\* "{email}.{model_name}" (an older entry of that key is replaced), every
\* entry under another key being as it was, an absent or empty file counting
\* as the empty object; loading that identity then returns the saved token
\* and id.
C24_ReadMergeWrite ==
    /\ [][(Saved /\ store.file # "corrupt") =>
            LET c == Last(calls')
            IN  /\ c.res = "ok"
                /\ store'.file = "json"
                /\ DOMAIN store'.json = DOMAIN store.json \cup {StoreKey(c)}
                /\ store.file \in {"absent", "empty"} => DOMAIN store'.json = {StoreKey(c)}
                /\ store'.json[StoreKey(c)] =
                       [model_id |-> c.model_id, access_token |-> c.access_token]
                /\ \A k \in DOMAIN store.json \ {StoreKey(c)} :
                       store'.json[k] = store.json[k]]_vars
    /\ [][(/\ Loaded /\ op = "save" /\ Last(calls).res = "ok"
           /\ StoreKey(Last(calls')) = StoreKey(Last(calls))) =>
               /\ Last(calls').res = "ok"
               /\ Last(calls').access_token = Last(calls).access_token
               /\ Last(calls').model_id = Last(calls).model_id
               /\ store' = store]_vars

\* a second save replaced the entry of the first, another identity's entry
\* is still there
C24_Witness ==
    /\ op = "save" /\ Len(calls) = 2
    /\ calls[1].op = "save" /\ calls[2].op = "save"
    /\ calls[1].model_id = "i1" /\ calls[2].model_id = "2344423"
    /\ StoreKey(calls[2]) = "e@x.n"
    /\ DOMAIN store.json = {"o@x.m", "e@x.n"}
    /\ store.json["e@x.n"] = [model_id |-> "2344423", access_token |-> ""]
    /\ store.json["o@x.m"] = [model_id |-> "i0", access_token |-> "t0"]

\* C25: loading an identity that has no entry in an existing store raises
\* ValueError; loading from a store that is absent or unreadable raises
\* FileNotFoundError; in both cases no credential is returned and the store
\* is not modified.
C25_LoadErrors ==
    [][Loaded =>
            LET c == Last(calls')
                present == store.file = "json" /\ StoreKey(c) \in DOMAIN store.json
            IN  /\ store' = store
                /\ (store.file = "json" /\ ~present) => c.res = "ValueError"
                /\ store.file # "json" => c.res = "FileNotFoundError"
                /\ ~present => (c.access_token = NoneStr /\ c.model_id = NoneStr)]_vars

\* table s is table t without its record_id column: the other columns in
\* their order, every row with its other values
Stripped(s, t) ==
    /\ ~Has(s.cols, "record_id")
    /\ Len(s.cols) = Len(t.cols) - 1
    /\ Len(s.rows) = Len(t.rows)
    /\ \A i \in 1..Len(t.cols) :
           t.cols[i] # "record_id" =>
               LET j == Cardinality({k \in 1..i : t.cols[k] # "record_id"})
               IN  /\ s.cols[j] = t.cols[i]
                   /\ \A r \in 1..Len(t.rows) : s.rows[r][j] = t.rows[r][i]

\* C26: prepare_datasets on two tables that both have a record_id column
\* returns both without it, the other columns and the rows as they were,
\* and the record ids of the prediction table in row order; when a table
\* has no record_id column the call raises and returns no tables.
C26_PrepareDatasets ==
    [][op' = "prepare_datasets" /\ Len(calls') = Len(calls) + 1 =>
            LET c == Last(calls')
            IN  IF Has(c.given_train.cols, "record_id")
                   /\ Has(c.given_prediction.cols, "record_id")
                THEN /\ c.res = "ok"
                     /\ Stripped(c.train, c.given_train)
                     /\ Stripped(c.prediction, c.given_prediction)
                     /\ Len(c.predict_rids) = Len(c.given_prediction.rows)
                     /\ \A r \in 1..Len(c.predict_rids) :
                            c.predict_rids[r] = RecordIds(c.given_prediction)[r]
                ELSE c.res \in {"AttributeError", "KeyError"}]_vars

\* a table with record_id in the middle was stripped, its repeated record
\* ids came back in row order; another call raised for a train table
\* without record_id
C26_Witness ==
    /\ op = "prepare_datasets" /\ Len(calls) = 2
    /\ calls[1].res = "ok"
    /\ calls[1].given_prediction.cols = <<"a", "record_id", "b">>
    /\ calls[1].prediction.cols = <<"a", "b">>
    /\ calls[1].prediction.rows = << <<10, 7>>, <<20, 8>>, <<30, 9>> >>
    /\ calls[1].predict_rids = <<3, 1, 3>>
    /\ calls[1].train = [cols |-> <<"a">>, rows |-> << <<10>>, <<20>> >>]
    /\ calls[2].res = "AttributeError"
    /\ calls[2].given_train = TrainNoId

\* a conversation on an established connection has ended: the enrollment
\* succeeded, the process exited on a server-reported error, or the session
\* was refused authentication
ConversationEnded ==
    /\ conn \in {"connected", "closed"}
    /\ \/ pc = "done"
       \/ pc = "exited"
       \/ pc = "raised" /\ err = "PermissionError"

\* C27: whenever a conversation has ended (enrollment success, fatal
\* server-reported error, authentication rejection in the session) the
\* connection is closed, and once it is closed nothing more is sent on it
\* or received from it.
C27_ClosedWhenEnded ==
    /\ [](ConversationEnded => conn = "closed")
    /\ [][conn = "closed" => (sent' = sent /\ sock_in' = sock_in /\ conn' = "closed")]_vars

\* the NewModel message of the enrolling identity
EnrollingNewModel ==
    [NewModel |-> [email |-> verifier.email, password |-> verifier.password,
                   model_name |-> verifier.model_name]]

IsNewModel(f) == DOMAIN f.payload.msg = {"NewModel"}

\* C28: the handshake sends NewModel with its email, password and model name
\* exactly once, as its first message, before it has read anything, with
\* the private key loaded and the connection established; when the private
\* key is missing or the connection is refused the process exits with
\* nothing sent, and nothing is tried again.
C28_NewModelFirst ==
    /\ [](\A i \in 1..Len(sent) : IsNewModel(sent[i]) <=> i = 1)
    /\ [](sent # <<>> => /\ sent[1].payload.msg = EnrollingNewModel
                         /\ verifier.private_key # NoneStr
                         /\ conn \in {"connected", "closed"})
    /\ [](lastRead # NoRead => sent # <<>>)
    /\ [][(sent = <<>> /\ sent' # <<>>) =>
              /\ op' = "verify_connect" /\ Len(sent') = 1
              /\ conn = "idle" /\ conn' = "connected"
              /\ lastRead' = NoRead]_vars
    /\ []((verifier.private_key = NoneStr /\ pc # "main") =>
              (pc = "exited" /\ err = "SystemExit" /\ conn = "idle" /\ sent = <<>>))
    /\ [](conn = "refused" => (pc = "exited" /\ err = "SystemExit" /\ sent = <<>>))
    /\ [][pc # "exited"]_vars

\* a handshake whose connection was refused: the key was there, the process
\* exited, nothing was sent
C28_Witness ==
    /\ op = "verify_connect" /\ conn = "refused"
    /\ pc = "exited" /\ err = "SystemExit"
    /\ verifier.private_key # NoneStr
    /\ sent = <<>> /\ lastRead = NoRead

\* the session loop is about to run the handler of its state
InLoop == pc = "loop"

\* C29: in every reachable state of the session the message stack holds at
\* most one message; it is empty when the session is in HEARTBEAT about to
\* receive; when _message_control moves the session to READ_JOB (to
\* PROCESSING) the stack holds exactly the JobConfig (Dataset) message that
\* was just received, and it still does when the handler of that state runs.
C29_SingleSlotStack ==
    /\ [](Len(message_stack) <= 1)
    /\ []((InLoop /\ state = "HEARTBEAT") => message_stack = <<>>)
    /\ [][(op' = "message_control" /\ state' = "READ_JOB" /\ pc' = "loop") =>
              /\ DOMAIN lastRead'.msg = {"JobConfig"}
              /\ message_stack' = <<lastRead'.msg>>]_vars
    /\ [][(op' = "message_control" /\ state' = "PROCESSING" /\ pc' = "loop") =>
              /\ DOMAIN lastRead'.msg = {"Dataset"}
              /\ message_stack' = <<lastRead'.msg>>]_vars
    /\ []((InLoop /\ state = "READ_JOB") =>
              (Len(message_stack) = 1 /\ DOMAIN message_stack[1] = {"JobConfig"}))
    /\ []((InLoop /\ state = "PROCESSING") =>
              (Len(message_stack) = 1 /\ DOMAIN message_stack[1] = {"Dataset"}))

\* a Dataset was just buffered after an offer had been answered and the
\* stack emptied
C29_Witness ==
    /\ InLoop /\ op = "message_control" /\ state = "PROCESSING"
    /\ message_stack = <<lastRead.msg>>
    /\ DOMAIN lastRead.msg = {"Dataset"}
    /\ Len(sent) >= 2
    /\ DOMAIN Last(sent).payload.msg = {"ConfigResponse"}

\* the handler of READ_JOB (of PROCESSING) runs on a message stack whose top
\* is not a JobConfig (not a Dataset)
MismatchOnPop ==
    /\ message_stack # <<>>
    /\ \/ op' = "process_job_config" /\ "JobConfig" \notin DOMAIN Last(message_stack)
       \/ op' = "process_job" /\ "Dataset" \notin DOMAIN Last(message_stack)

\* C30: when the message popped from the message stack is not a JobConfig in
\* READ_JOB, or not a Dataset in PROCESSING, the session recovers: the
\* handler returns, nothing is sent and the state is HEARTBEAT.
C30_MismatchRecovered ==
    [][MismatchOnPop =>
           /\ sent' = sent
           /\ pc' = pc /\ err' = err
           /\ state' = "HEARTBEAT"]_vars

\* C31: when the handshake reads a message with no top-level key or with
\* more than one, it aborts: it does not stay in its loop to read further
\* messages.
C31_MalformedAborts ==
    [][(HandshakeRead /\ Cardinality(DOMAIN lastRead'.msg) # 1) => pc' # "verify"]_vars

\* an AccessToken message whose payload lacks token or id
PartialAccessToken(m) ==
    DOMAIN m = {"AccessToken"} /\ ~({"token", "id"} \subseteq DOMAIN m.AccessToken)

\* C36: when the handshake reads an AccessToken message whose payload lacks
\* token or id, the connection is closed, nothing is sent, a field that is
\* missing stays unset in the object, and, the store being readable, the
\* entry "{email}.{model_name}" is written with the object's fields (other
\* entries as they were) and the loop ends as it does for a complete
\* AccessToken.
C36_PartialAccessTokenPersisted ==
    [][(HandshakeRead /\ PartialAccessToken(lastRead'.msg)) =>
            LET d == lastRead'.msg.AccessToken
            IN  /\ conn' = "closed" /\ sent' = sent
                /\ "token" \notin DOMAIN d => access_token' = NoneStr
                /\ "id" \notin DOMAIN d => model_id' = NoneStr
                /\ "token" \in DOMAIN d => access_token' = d.token
                /\ store.file # "corrupt" =>
                      /\ pc' = "done" /\ err' = ""
                      /\ store'.file = "json"
                      /\ DOMAIN store'.json = DOMAIN store.json \cup {EnrollKey}
                      /\ store'.json[EnrollKey] =
                             [model_id |-> model_id', access_token |-> access_token']
                      /\ \A k \in DOMAIN store.json \ {EnrollKey} :
                             store'.json[k] = store.json[k]]_vars

\* an AccessToken without id ended the handshake: the token is stored, the
\* model id is unset, an older entry of another identity is still there
C36_Witness ==
    /\ pc = "done" /\ op = "verify_loop" /\ conn = "closed"
    /\ lastRead.res = "ok" /\ lastRead.msg = [AccessToken |-> [token |-> "t1"]]
    /\ access_token = "t1" /\ model_id = NoneStr
    /\ EnrollKey \in DOMAIN store.json /\ "o@x.m" \in DOMAIN store.json
    /\ store.json[EnrollKey] = [model_id |-> NoneStr, access_token |-> "t1"]

\* the receive of _message_control failed in the transport: the length
\* prefix came short (a lost connection returns no bytes) or the payload
\* could not be decoded
TransportError ==
    lastRead'.res \in {"struct.error", "JSONDecodeError", "UnicodeDecodeError"}

\* C32: once the session loop has started the state is HEARTBEAT, READ_JOB or
\* PROCESSING; the loop is left only by an exception or by the exit of the
\* process; a receive that fails in the transport leaves the loop with
\* that error, the connection, the messages sent, the state and the message
\* stack as they were; after the loop was left nothing runs: no
\* reconnection, no message sent again.
C32_LoopEndsOnlyFatally ==
    /\ [](pc = "loop" => state \in {"HEARTBEAT", "READ_JOB", "PROCESSING"})
    /\ [][pc = "loop" => pc' \in {"loop", "raised", "exited"}]_vars
    /\ [][(pc = "loop" /\ op' = "message_control" /\ TransportError) =>
              /\ pc' = "raised" /\ err' = lastRead'.res
              /\ sent' = sent /\ conn' = conn
              /\ state' = state /\ message_stack' = message_stack]_vars
    /\ [][(conn = "connected" /\ pc \in {"new", "raised"}) =>
              /\ pc' \in {"new", "raised"} /\ conn' = conn /\ sent' = sent
              /\ state' = state /\ message_stack' = message_stack]_vars
    /\ [][pc # "exited"]_vars

\* the loop had echoed a heartbeat and was then left by a receive whose
\* length prefix came short
C32_Witness ==
    /\ pc = "raised" /\ err = "struct.error" /\ op = "message_control"
    /\ lastRead.res = "struct.error"
    /\ state = "HEARTBEAT" /\ conn = "connected"
    /\ Len(sent) >= 2 /\ DOMAIN Last(sent).payload.msg = {"Alive"}

\* the frame of the answer that accepts (declines) an offer
IsAnswer(f, accept) == f.payload.msg = [ConfigResponse |-> [accept |-> accept]]

\* this step of _process_job_config answered the offer on the stack
Answered(accept) ==
    /\ op' = "process_job_config"
    /\ Len(sent') = Len(sent) + 1
    /\ IsAnswer(Last(sent'), accept)

\* C33: the remembered offer changes only in a step that accepts an offer,
\* and becomes the payload of that offer; a rejection, a heartbeat echo and
\* the processing of a dataset leave it as it was; the Work Callback is
\* given the remembered offer, which is None as long as no offer was
\* accepted.
C33_RememberedOffer ==
    /\ [][recv_job_config' # recv_job_config => Answered(TRUE)]_vars
    /\ [][Answered(TRUE) => recv_job_config' = Last(message_stack).JobConfig]_vars
    /\ [][(Answered(FALSE) \/ op' \in {"message_control", "process_job"}) =>
              recv_job_config' = recv_job_config]_vars
    /\ [][(op' = "process_job" /\ Len(calls') = Len(calls) + 1) =>
              Last(calls').job_config = recv_job_config]_vars
    /\ [](recv_job_config = None <=>
              ~ \E i \in 1..Len(sent) : IsAnswer(sent[i], TRUE))

\* an offer was accepted and the next one declined: the accepted one is
\* still remembered
C33_Witness ==
    /\ op = "process_job_config" /\ pc = "loop" /\ state = "HEARTBEAT"
    /\ recv_job_config = OfferOK
    /\ Len(sent) = 3
    /\ IsAnswer(sent[2], TRUE) /\ IsAnswer(sent[3], FALSE)

\* _message_control ran in HEARTBEAT and its read returned a message
HeartbeatReceived ==
    /\ op' = "message_control" /\ state = "HEARTBEAT"
    /\ lastRead'.res = "ok"

\* C34: in HEARTBEAT a received message without Alive, JobConfig and Dataset
\* changes nothing: the state, the messages sent, the message stack and the
\* remembered offer are as before and the handler returns. A message with
\* several of these keys takes one branch: the echo if it has Alive, else
\* the buffering for READ_JOB if it has JobConfig, else the buffering for
\* PROCESSING.
C34_HeartbeatDispatch ==
    [][HeartbeatReceived =>
           LET m == lastRead'.msg
               keys == DOMAIN m
           IN  /\ recv_job_config' = recv_job_config
               /\ pc' = pc /\ err' = err
               /\ keys \cap {"Alive", "JobConfig", "Dataset"} = {} =>
                      /\ state' = "HEARTBEAT" /\ sent' = sent
                      /\ message_stack' = message_stack
               /\ "Alive" \in keys =>
                      /\ state' = "HEARTBEAT" /\ message_stack' = message_stack
                      /\ Len(sent') = Len(sent) + 1 /\ Front(sent') = sent
                      /\ Last(sent').payload.msg = m
               /\ ("Alive" \notin keys /\ "JobConfig" \in keys) =>
                      /\ state' = "READ_JOB" /\ sent' = sent
                      /\ message_stack' = Append(message_stack, m)
               /\ (keys \cap {"Alive", "JobConfig"} = {} /\ "Dataset" \in keys) =>
                      /\ state' = "PROCESSING" /\ sent' = sent
                      /\ message_stack' = Append(message_stack, m)]_vars

\* a message with JobConfig and Dataset was buffered for READ_JOB
C34_Witness ==
    /\ op = "message_control" /\ pc = "unit" /\ lastRead.res = "ok"
    /\ DOMAIN lastRead.msg = {"JobConfig", "Dataset"}
    /\ state = "READ_JOB" /\ sent = <<>>
    /\ message_stack = <<lastRead.msg>>

\* the server-error handling of a Server message m read from a frame of at
\* most 4096 bytes ends the process: its text is a JSON object that reports
\* the message the reader knows ("Locked" in the session, "Unauthorized" in
\* the handshake) or no message at all
FatalInSmallFrame(m) ==
    /\ "Server" \in DOMAIN m
    /\ "text" \in DOMAIN m.Server
    /\ "json" \in DOMAIN m.Server.text
    /\ "code" \in DOMAIN m.Server
    /\ \/ "message" \notin DOMAIN m.Server.text.json
       \/ ServerErrorText(m) = (IF op' = "verify_loop" THEN "Unauthorized" ELSE "Locked")

\* C35: a read that decodes a Server message ends the process exactly when
\* the server-error handling of that message does in a frame of at most 4096
\* bytes, whatever the length of the frame it came in.
C35_ServerErrorAnyLength ==
    [][(ReadStep /\ "Server" \in DOMAIN lastRead'.msg) =>
           (pc' = "exited" <=> FatalInSmallFrame(lastRead'.msg))]_vars

\* exactly one message is sent in this step
SendsOne == Len(sent') = Len(sent) + 1 /\ Front(sent') = sent

\* the variant of the message sent in this step
SentVariant == DOMAIN Last(sent').payload.msg

\* C37: in the session loop a receive is made in HEARTBEAT only, and in
\* HEARTBEAT nothing but the receive runs; the receive sends one message,
\* the echo of what it read, when that has Alive, and nothing otherwise; a
\* buffered JobConfig (Dataset) is answered by the next step of the session
\* with one ConfigResponse (one Predictions, unless that step raises), before
\* any further receive; no other message is sent.
C37_StrictlyReactive ==
    /\ [][(pc = "loop" /\ op' = "message_control") => state = "HEARTBEAT"]_vars
    /\ [][(pc = "loop" /\ state = "HEARTBEAT") =>
              op' \in {"message_control", "peer_send"}]_vars
    /\ [][(pc = "loop" /\ op' = "message_control") =>
              IF lastRead'.res = "ok" /\ "Alive" \in DOMAIN lastRead'.msg
              THEN /\ SendsOne /\ Last(sent').payload.msg = lastRead'.msg
                   /\ state' = "HEARTBEAT"
              ELSE sent' = sent]_vars
    /\ [][(pc = "loop" /\ op' = "process_job_config") =>
              /\ state = "READ_JOB" /\ lastRead' = lastRead
              /\ "JobConfig" \in DOMAIN lastRead.msg
              /\ SendsOne /\ SentVariant = {"ConfigResponse"}
              /\ state' = "HEARTBEAT" /\ pc' = "loop"]_vars
    /\ [][(pc = "loop" /\ op' = "process_job") =>
              /\ state = "PROCESSING" /\ lastRead' = lastRead
              /\ "Dataset" \in DOMAIN lastRead.msg
              /\ \/ SendsOne /\ SentVariant = {"Predictions"}
                    /\ state' = "HEARTBEAT" /\ pc' = "loop"
                 \/ sent' = sent /\ pc' = "raised"]_vars
    /\ [][(pc = "loop" /\ op' = "peer_send") => sent' = sent]_vars

\* a heartbeat was echoed, then a Dataset was answered with Predictions
C37_Witness ==
    /\ pc = "loop" /\ op = "process_job" /\ state = "HEARTBEAT"
    /\ Len(sent) = 3
    /\ DOMAIN sent[2].payload.msg = {"Alive"}
    /\ DOMAIN sent[3].payload.msg = {"Predictions"}
    /\ DOMAIN lastRead.msg = {"Dataset"}

====
